---- MODULE Spec2Model ----
(***************************************************************************)
(* A model of the persona retrieval engine of LekhokAI:                    *)
(*   persona_processor.py  (chunker, embedding cache, persona store)       *)
(*   retrieval_module.py   (coarse filter, rank, rerank, truncate)         *)
(*   main_agent.py         (the session: load_character / generate)        *)
(*   config_loader.py      (main and character configuration)              *)
(*                                                                         *)
(* Three specifications share the module:                                  *)
(*   SpecChunk  the loop of PersonaProcessor.chunk_text, step by step      *)
(*   SpecRetr   RetrievalModule.find_relevant_chunks on bounded inputs     *)
(*   Spec       the agent: load_character, generate_story_and_image        *)
(***************************************************************************)
EXTENDS Integers, Sequences, FiniteSets, TLC

VARIABLES
    \* ---- chunk_text (persona_processor.py:95-119), one call, step by step
    ct_text,        \* argument text
    ct_chunk_size,  \* argument chunk_size
    ct_overlap,     \* argument overlap
    ct_start,       \* local start
    ct_chunks,      \* local chunks
    ct_pc,          \* "call" | "loop" | "done"
    \* ---- find_relevant_chunks (retrieval_module.py:55-118), one call
    rm_query_embedding,       \* argument query_embedding
    rm_doc_chunk_embeddings,  \* argument doc_chunk_embeddings
    rm_doc_chunks_text,       \* argument doc_chunks_text
    rm_params_config,         \* config value of retrieval_params.<query_type>
    rm_reranker_model,        \* self.reranker_model: TRUE when a model is loaded
    rm_query_type,            \* argument query_type
    rm_predict,               \* what reranker_model.predict did in this call
    rm_predict_calls,         \* the sentence_pairs of each predict call, in order
    rm_initial_scores,        \* local initial_scores, as built by the loop (lines 79-93)
    rm_result,                \* the returned list
    rm_pc,                    \* "call" | "returned"
    \* ---- the agent (main_agent.py) with its components and the files it uses
    current_character,           \* CharacterBasedAgent.current_character
    current_persona_chunks,      \* CharacterBasedAgent.current_persona_chunks
    current_persona_embeddings,  \* CharacterBasedAgent.current_persona_embeddings
    character_config,            \* ConfigLoader.character_config
    embedding_model,             \* PersonaProcessor.embedding_model: TRUE when loaded
    reranker_model,              \* RetrievalModule.reranker_model: TRUE when loaded
    cache_embeddings,            \* main config, app.cache_embeddings
    persona_files,               \* the persona documents on disk: path -> text
    cache_files,                 \* the cache directory: path -> (chunks, embeddings)
    encode_runs,                 \* per persona document: runs of the embedding model on it
    first_result,                \* per persona document: what its first processing returned
    last,                        \* the last operation: arguments, return value, calls made
    \* ---- format_context_for_llm (retrieval_module.py:153-176), one call
    fc_context,   \* argument context: the dict as its (key, list) pairs in key order
    fc_sections,  \* local sections
    fc_output,    \* the returned string
    fc_pc,        \* "call" | "returned"
    \* ---- the environment of the agent
    io_faults,    \* the failures of cache I/O that may happen during a load
    \* ---- two threads on one agent: generate_story_and_image and load_character,
    \* ---- statement by statement
    g_pc,      \* position of the generate thread
    g_local,   \* its prompt, the session fields it has read, the call it made, its outcome
    g_raced,   \* a load was assigning the session while this generate call was in flight
    l_pc,      \* position of the load thread
    l_local,   \* its character_name and result
    \* ---- the HTTP API: requests of several users served by the one global agent
    session_owner,  \* the user whose request loaded the agent's session, if any
    api_last,       \* the last request: user, endpoint, arguments, response
    \* ---- the main configuration
    configured_chunking,  \* the chunk size and overlap the configuration gives, if any
    \* ---- the character configuration directory (config_loader.py)
    config_dir,  \* the names of the files in it
    listed       \* the last call of the ConfigLoader on it: arguments and result

ct_vars == <<ct_text, ct_chunk_size, ct_overlap, ct_start, ct_chunks, ct_pc>>

rm_vars == <<rm_query_embedding, rm_doc_chunk_embeddings, rm_doc_chunks_text,
             rm_params_config, rm_reranker_model, rm_query_type, rm_predict,
             rm_predict_calls, rm_initial_scores,
             rm_result, rm_pc>>

ag_vars == <<current_character, current_persona_chunks, current_persona_embeddings,
             character_config, embedding_model, reranker_model, cache_embeddings,
             persona_files, cache_files, encode_runs, first_result, last>>

fc_vars == <<fc_context, fc_sections, fc_output, fc_pc>>

\* the variables of the specifications added to the three above
th_vars == <<g_pc, g_local, g_raced, l_pc, l_local>>

api_vars == <<session_owner, api_last>>

cd_vars == <<config_dir, listed>>

aux_vars == <<fc_vars, io_faults, th_vars, api_vars, configured_chunking, cd_vars>>

vars == <<ct_vars, rm_vars, ag_vars, aux_vars>>

(***************************************************************************)
(* Bounds of the model.                                                    *)
(***************************************************************************)
MaxTextLen == 6     \* longest text handed to the chunker
MaxChunkSize == 4   \* largest chunk_size / overlap tried in SpecChunk
MaxChunks == 3      \* most chunks of a document handed to the retrieval module
MaxEncodeRuns == 2  \* runs of the embedding model on one document that are counted

Alphabet == {"a", "b"}

RECURSIVE Strings(_)
Strings(n) ==
    IF n = 0 THEN {""}
    ELSE LET shorter == Strings(n - 1)
         IN  shorter \cup {s \o c : s \in {t \in shorter : Len(t) = n - 1}, c \in Alphabet}

Min(a, b) == IF a <= b THEN a ELSE b
Max(a, b) == IF a >= b THEN a ELSE b

(***************************************************************************)
(* Python slicing  seq[start:end]  for integer start, end: a negative      *)
(* index counts from the end, and both are clamped to 0..len.              *)
(***************************************************************************)
PyIndex(i, len) == IF i < 0 THEN Max(i + len, 0) ELSE Min(i, len)

PySlice(seq, start, end) ==
    SubSeq(seq, PyIndex(start, Len(seq)) + 1, PyIndex(end, Len(seq)))

(***************************************************************************)
(* chunk_text: the pieces of one loop iteration.                           *)
(***************************************************************************)
DefaultChunkSize == 700
DefaultOverlap == 120

\* end = start + chunk_size, one short
ChunkEndOneShort(start, chunk_size) == start + chunk_size - 1

\* end = start + chunk_size
ChunkEnd(start, chunk_size) == start + chunk_size

\* start += (chunk_size - overlap), ignoring the overlap
NextStartNoOverlap(start, chunk_size, overlap) == start + chunk_size

\* start += (chunk_size - overlap)
NextStart(start, chunk_size, overlap) == start + (chunk_size - overlap)

\* the whole function, for callers of chunk_text (the loop unrolled by recursion)
RECURSIVE ChunkLoop(_, _, _, _, _)
ChunkLoop(text, chunk_size, overlap, start, chunks) ==
    IF ~(start < Len(text)) THEN chunks
    ELSE LET end == ChunkEnd(start, chunk_size)
             more == Append(chunks, PySlice(text, start, end))
         IN  IF end >= Len(text) THEN more
             ELSE ChunkLoop(text, chunk_size, overlap,
                            NextStart(start, chunk_size, overlap), more)

\* the function without the test of lines 106-107, the empty text given as one chunk
ChunkTextKeepsEmpty(text, chunk_size, overlap) ==
    IF text = "" THEN <<"">> ELSE ChunkLoop(text, chunk_size, overlap, 0, <<>>)

chunk_text(text, chunk_size, overlap) ==
    IF text = "" THEN <<>> ELSE ChunkLoop(text, chunk_size, overlap, 0, <<>>)

(***************************************************************************)
(* Values shared by the retrieval module and the agent.                    *)
(***************************************************************************)
\* An optional value (Python's None, a key a dict does not hold) is a sequence:
\* <<>> when absent, <<v>> when present.
Missing == <<>>
Some(v) == <<v>>
Value(opt) == opt[1]

\* an embedding: Python's None, or a vector of integers
None == [is_none |-> TRUE, v |-> <<>>]
Vec(v) == [is_none |-> FALSE, v |-> v]

ChunkEmbeddings == {None, Vec(<<0, 0>>), Vec(<<1, 0>>), Vec(<<0, 1>>), Vec(<<1, 1>>)}
QueryEmbeddings == {None, Vec(<<>>), Vec(<<1, 0>>), Vec(<<1, 1>>)}

RECURSIVE SeqsUpTo(_, _)
SeqsUpTo(S, n) ==
    IF n = 0 THEN {<<>>}
    ELSE LET shorter == SeqsUpTo(S, n - 1)
         IN  shorter \cup {Append(q, x) : q \in {t \in shorter : Len(t) = n - 1}, x \in S}

SeqsOfLen(S, n) == {q \in SeqsUpTo(S, n) : Len(q) = n}

(***************************************************************************)
(* Cosine similarity in exact arithmetic. A score stands for the real      *)
(* number num / sqrt(den2); sklearn's cosine_similarity gives 0 when one   *)
(* of the vectors has norm 0.                                              *)
(***************************************************************************)
RECURSIVE DotFrom(_, _, _)
DotFrom(a, b, i) == IF i > Len(a) THEN 0 ELSE a[i] * b[i] + DotFrom(a, b, i + 1)

Dot(a, b) == DotFrom(a, b, 1)

\* chunk_emb.any()
AnyNonZero(v) == \E i \in 1..Len(v) : v[i] # 0

\* cosine_similarity raises on vectors of different dimensions
SimilarityRaises(a, b) == Len(a) # Len(b)

cosine_similarity(a, b) ==
    LET d2 == Dot(a, a) * Dot(b, b)
    IN  IF d2 = 0 THEN [num |-> 0, den2 |-> 1] ELSE [num |-> Dot(a, b), den2 |-> d2]

\* x.num / sqrt(x.den2)  >=  y.num / sqrt(y.den2)
ScoreGE(x, y) ==
    IF x.num >= 0 /\ y.num <= 0 THEN TRUE
    ELSE IF x.num < 0 /\ y.num >= 0 THEN FALSE
    ELSE IF x.num >= 0
         THEN x.num * x.num * y.den2 >= y.num * y.num * x.den2
         ELSE x.num * x.num * y.den2 <= y.num * y.num * x.den2

ScoreGT(x, y) == ~ScoreGE(y, x)

\* a threshold given in hundredths (20 is 0.20), as a score
Hundredths(t) == [num |-> t, den2 |-> 10000]

(***************************************************************************)
(* RetrievalModule._get_retrieval_params                                   *)
(***************************************************************************)
DefaultInitialRetrieval == 7
DefaultFinalRetrieval == 3
DefaultSimilarityThreshold == 20    \* 0.20, in hundredths

\* dict.get(key, default)
DictGet(d, key, default) == IF d[key] = Missing THEN default ELSE Value(d[key])

get_retrieval_params(params) ==
    [initial_retrieval |-> DictGet(params, "initial_retrieval", DefaultInitialRetrieval),
     final_retrieval |-> DictGet(params, "final_retrieval", DefaultFinalRetrieval),
     similarity_threshold |->
         DictGet(params, "similarity_threshold", DefaultSimilarityThreshold)]

(***************************************************************************)
(* RetrievalModule.find_relevant_chunks                                    *)
(***************************************************************************)
\* list.sort(key = ..., reverse = True): descending, equal keys keep their order.
\* gt[i][j] says that the key of items[i] is greater than the key of items[j].
StableSortDesc(items, gt) ==
    LET n == Len(items)
        pos(i) == Cardinality({j \in 1..n : gt[j][i]})
                  + Cardinality({j \in 1..(i - 1) : ~gt[j][i] /\ ~gt[i][j]})
                  + 1
    IN  [p \in 1..n |-> items[CHOOSE i \in 1..n : pos(i) = p]]

\* line 87 with the comparison turned around
PassesThresholdBelow(sim, threshold) == ScoreGE(Hundredths(threshold), sim)

\* line 87: sim >= params['similarity_threshold']
PassesThreshold(sim, threshold) == ScoreGE(sim, Hundredths(threshold))

\* lines 79-93 with the try around the loop: the first chunk whose similarity raises
\* ends the loop
InitialScoresStopAtFailure(query_embedding, doc_chunk_embeddings, doc_chunks_text, threshold) ==
    LET n == Len(doc_chunk_embeddings)
        sim(i) == cosine_similarity(query_embedding.v, doc_chunk_embeddings[i].v)
        raises(i) ==
            /\ doc_chunk_embeddings[i] # None
            /\ AnyNonZero(doc_chunk_embeddings[i].v)
            /\ SimilarityRaises(query_embedding.v, doc_chunk_embeddings[i].v)
        kept(i) ==
            /\ doc_chunk_embeddings[i] # None
            /\ AnyNonZero(doc_chunk_embeddings[i].v)
            /\ \A j \in 1..i : ~raises(j)
            /\ PassesThreshold(sim(i), threshold)
            /\ i <= Len(doc_chunks_text)
        idx == SelectSeq([i \in 1..n |-> i], kept)
    IN  [k \in 1..Len(idx) |->
            [text |-> doc_chunks_text[idx[k]],
             initial_score |-> sim(idx[k]),
             rerank_score |-> Missing]]

\* lines 79-93: the loop that builds initial_scores; a chunk whose similarity or
\* whose text lookup raises is skipped (except, line 92)
InitialScores(query_embedding, doc_chunk_embeddings, doc_chunks_text, threshold) ==
    LET n == Len(doc_chunk_embeddings)
        sim(i) == cosine_similarity(query_embedding.v, doc_chunk_embeddings[i].v)
        kept(i) ==
            /\ doc_chunk_embeddings[i] # None
            /\ AnyNonZero(doc_chunk_embeddings[i].v)
            /\ ~SimilarityRaises(query_embedding.v, doc_chunk_embeddings[i].v)
            /\ PassesThreshold(sim(i), threshold)
            /\ i <= Len(doc_chunks_text)
        idx == SelectSeq([i \in 1..n |-> i], kept)
    IN  [k \in 1..Len(idx) |->
            [text |-> doc_chunks_text[idx[k]],
             initial_score |-> sim(idx[k]),
             rerank_score |-> Missing]]

InitialScoreGT(x, y) == ScoreGT(x.initial_score, y.initial_score)

RerankScoreGT(x, y) == Value(x.rerank_score) > Value(y.rerank_score)

\* key = lambda x: x['initial_score'], compared over the whole list
ByInitialScore(items) ==
    [i \in 1..Len(items) |-> [j \in 1..Len(items) |-> InitialScoreGT(items[i], items[j])]]

\* line 113 without reverse=True: the lowest rerank score first
ByRerankScoreAscending(items) ==
    [i \in 1..Len(items) |-> [j \in 1..Len(items) |-> RerankScoreGT(items[j], items[i])]]

\* key = lambda x: x['rerank_score'], compared over the whole list
ByRerankScore(items) ==
    [i \in 1..Len(items) |-> [j \in 1..Len(items) |-> RerankScoreGT(items[i], items[j])]]

\* lines 96-97 with a sort that puts candidates of equal score in reverse order
TopChunksTiesReversed(initial_scores, initial_retrieval) ==
    LET n == Len(initial_scores)
        reversed == [i \in 1..n |-> initial_scores[n + 1 - i]]
    IN  PySlice(StableSortDesc(reversed, ByInitialScore(reversed)), 0, initial_retrieval)

\* lines 96-97: sort by initial score, take the top initial_retrieval
TopChunks(initial_scores, initial_retrieval) ==
    PySlice(StableSortDesc(initial_scores, ByInitialScore(initial_scores)),
            0, initial_retrieval)

\* lines 103-118 with the except branch returning nothing
RerankFailureDropsAll(top_chunks, outcome, final_retrieval) ==
    IF outcome.raises \/ Len(outcome.scores) < Len(top_chunks) THEN <<>>
    ELSE LET scored == [i \in 1..Len(top_chunks) |->
                           [top_chunks[i] EXCEPT !.rerank_score = Some(outcome.scores[i])]]
         IN  PySlice(StableSortDesc(scored, ByRerankScore(scored)), 0, final_retrieval)

\* lines 103-118: predict, then add the scores, sort and cut; on any exception the
\* list as it is by then, cut to final_retrieval. `outcome` is what predict did:
\* it raised, or it returned scores (too few of them make line 110 raise).
Rerank(top_chunks, outcome, final_retrieval) ==
    IF outcome.raises THEN PySlice(top_chunks, 0, final_retrieval)
    ELSE LET n == Len(top_chunks)
             m == Min(Len(outcome.scores), n)
             scored == [i \in 1..n |->
                           IF i <= m
                              THEN [top_chunks[i] EXCEPT
                                       !.rerank_score = Some(outcome.scores[i])]
                              ELSE top_chunks[i]]
         IN  IF Len(outcome.scores) < n
                THEN PySlice(scored, 0, final_retrieval)
                ELSE PySlice(StableSortDesc(scored, ByRerankScore(scored)), 0, final_retrieval)

\* line 73
EmptyInput(query_embedding, doc_chunk_embeddings, doc_chunks_text) ==
    \/ query_embedding = None
    \/ Len(query_embedding.v) = 0
    \/ Len(doc_chunk_embeddings) = 0
    \/ Len(doc_chunks_text) = 0

\* what the call has in top_chunks at line 99 (empty on the early return of line 74)
CoarseTop(query_embedding, doc_chunk_embeddings, doc_chunks_text, config) ==
    IF EmptyInput(query_embedding, doc_chunk_embeddings, doc_chunks_text) THEN <<>>
    ELSE LET params == get_retrieval_params(config)
         IN  TopChunks(InitialScores(query_embedding, doc_chunk_embeddings,
                                     doc_chunks_text, params.similarity_threshold),
                       params.initial_retrieval)

\* line 99 without the test of top_chunks: an empty batch is handed to the reranker
RerankerInvokedOnEmpty(top_chunks, reranker) == reranker

\* line 105: sentence_pairs
SentencePairs(query_type, top_chunks) ==
    [i \in 1..Len(top_chunks) |-> <<query_type, top_chunks[i].text>>]

\* line 99 false: the reranker is invoked
RerankerInvoked(top_chunks, reranker) == Len(top_chunks) > 0 /\ reranker

\* what reranker_model.predict did: not called, raised, or returned scores
NotCalled == [called |-> FALSE, raises |-> FALSE, scores |-> <<>>]
Raised == [called |-> TRUE, raises |-> TRUE, scores |-> <<>>]
Returned(scores) == [called |-> TRUE, raises |-> FALSE, scores |-> scores]

find_relevant_chunks(query_embedding, doc_chunk_embeddings, doc_chunks_text, config, reranker, outcome) ==
    LET top_chunks == CoarseTop(query_embedding, doc_chunk_embeddings,
                                doc_chunks_text, config)
    IN  IF ~RerankerInvoked(top_chunks, reranker) THEN top_chunks
        ELSE Rerank(top_chunks, outcome, get_retrieval_params(config).final_retrieval)

\* str.join
RECURSIVE JoinStrings(_, _)
JoinStrings(strs, sep) ==
    IF Len(strs) = 0 THEN ""
    ELSE IF Len(strs) = 1 THEN strs[1]
    ELSE strs[1] \o sep \o JoinStrings(Tail(strs), sep)

\* lines 164-166, 168-170, 172-174: if key in context and context[key], the label
\* is appended to sections and the list extends it
FormatSection(context, key, label) ==
    IF key \in DOMAIN context /\ Len(context[key]) > 0
       THEN <<label>> \o context[key]
       ELSE <<>>

\* lines 162-174 with the style block ahead of the topic block
FormatSectionsStyleFirst(context) ==
    FormatSection(context, "style", "\nStyle Guidelines:")
        \o FormatSection(context, "topic", "Topic-Relevant Information:")
        \o FormatSection(context, "timeline", "\nTimeline Information:")

\* lines 162-174: sections when line 176 is reached
FormatSections(context) ==
    FormatSection(context, "topic", "Topic-Relevant Information:")
        \o FormatSection(context, "style", "\nStyle Guidelines:")
        \o FormatSection(context, "timeline", "\nTimeline Information:")

\* lines 162-176
format_context_for_llm(context) == JoinStrings(FormatSections(context), "\n\n")

(***************************************************************************)
(* Paths (os.path, pathlib) on strings.                                    *)
(***************************************************************************)
StartsWith(str, prefix) == Len(prefix) <= Len(str) /\ SubSeq(str, 1, Len(prefix)) = prefix

\* str.rfind(ch), counting from 1; 0 when ch does not occur
RECURSIVE RFindFrom(_, _, _)
RFindFrom(str, ch, i) ==
    IF i = 0 THEN 0
    ELSE IF SubSeq(str, i, i) = ch THEN i
    ELSE RFindFrom(str, ch, i - 1)

RFind(str, ch) == RFindFrom(str, ch, Len(str))

\* os.path.isabs
IsAbs(path) == StartsWith(path, "/")

\* os.path.join(dir, path)
PathJoin(dir, path) == IF IsAbs(path) THEN path ELSE dir \o "/" \o path

\* Path(path).name: the last component
PathName(path) == SubSeq(path, RFind(path, "/") + 1, Len(path))

\* Path(path).stem: the name without its last suffix
PathStem(path) ==
    LET name == PathName(path)
        dot == RFind(name, ".")
    IN  IF dot > 1 /\ dot < Len(name) THEN SubSeq(name, 1, dot - 1) ELSE name

(***************************************************************************)
(* The files of the installation.                                          *)
(***************************************************************************)
ConfigDir == "character_configs"    \* directories.character_configs
PersonasDir == "personas"           \* directories.personas
CacheDir == "cache"                 \* directories.cache

Facets == {"topic", "style", "timeline"}

NoParams == [initial_retrieval |-> Missing, final_retrieval |-> Missing,
             similarity_threshold |-> Missing]

\* a configuration: the keys the engine reads from it
EmptyConfig == [persona_file |-> Missing, retrieval_params |-> [f \in Facets |-> Missing]]

\* agent_config.yaml sets neither persona_file nor retrieval_params
MainConfig == EmptyConfig

\* the character configuration files in ConfigDir
CharacterConfigFiles ==
    [filename \in {"himu.yaml", "misir_config.yaml", "nofile.yaml", "lost.yaml",
                   "twin.yaml"} |->
        IF filename = "himu.yaml"
           THEN [EmptyConfig EXCEPT !.persona_file = Some("himu.txt")]
        ELSE IF filename = "misir_config.yaml"
           THEN [persona_file |-> Some("personas/misir.txt"),
                 retrieval_params |->
                     [f \in Facets |->
                         IF f = "style"
                            THEN Some([NoParams EXCEPT !.similarity_threshold = Some(80)])
                            ELSE Missing]]
        ELSE IF filename = "lost.yaml"
           THEN [EmptyConfig EXCEPT !.persona_file = Some("lost.txt")]
        ELSE IF filename = "twin.yaml"
           THEN [EmptyConfig EXCEPT !.persona_file = Some("old/himu.txt")]
        ELSE EmptyConfig]

\* the names load_character is called with; "ghost" has no configuration file
CharacterNames == {"himu", "misir", "nofile", "lost", "ghost"}

\* the persona documents that exist; personas/lost.txt does not
PersonaPaths == {"personas/himu.txt", "personas/misir.txt"}

RECURSIVE Repeat(_, _)
Repeat(str, n) == IF n = 0 THEN "" ELSE str \o Repeat(str, n - 1)

\* a document of 800 characters: chunk_text cuts it into [0,700) and [580,800)
LongText == Repeat("aaaaaaaaaa", 50) \o Repeat("bbbbbbbbbb", 30)

\* the document that is edited while the program runs, and the texts it may hold
EditedPath == "personas/himu.txt"
DocTexts == {"", "a", LongText}

\* the text of the other document
FixedText == "b"

\* open(path).read(): the text, or Missing when there is no such file
FileText(files, path) == IF path \in DOMAIN files THEN files[path] ELSE Missing

(***************************************************************************)
(* ConfigLoader                                                            *)
(***************************************************************************)
\* lines 44-48
PossibleFilenames(character_name) ==
    <<character_name \o ".yaml",
      character_name \o "_config.yaml",
      character_name \o "__config.yaml">>

\* lines 50-58: the configuration of the first file that exists, or Missing
load_character_config(character_name) ==
    LET names == PossibleFilenames(character_name)
        found == {i \in 1..Len(names) : names[i] \in DOMAIN CharacterConfigFiles}
    IN  IF found = {} THEN Missing
        ELSE Some(CharacterConfigFiles[names[CHOOSE i \in found : \A j \in found : i <= j]])

\* get_config('persona_file'): the character configuration first, then the main one
get_config_persona_file(config) ==
    IF config.persona_file # Missing THEN config.persona_file ELSE MainConfig.persona_file

\* get_config('retrieval_params.<query_type>', {})
get_config_retrieval_params(config, query_type) ==
    IF config.retrieval_params[query_type] # Missing
       THEN Value(config.retrieval_params[query_type])
    ELSE IF MainConfig.retrieval_params[query_type] # Missing
       THEN Value(MainConfig.retrieval_params[query_type])
    ELSE NoParams

(***************************************************************************)
(* PersonaProcessor                                                        *)
(***************************************************************************)
\* the embedding model on one text: a vector that depends on the text alone
\* (here on the letter the text starts with)
Embed(text) ==
    Vec(<<IF StartsWith(text, "a") THEN 1 ELSE 0, IF StartsWith(text, "b") THEN 1 ELSE 0>>)

\* embedding_model.encode(texts): one batch, one vector per text
encode(texts) == [i \in 1..Len(texts) |-> Embed(texts[i])]

\* line 50
get_cache_path(persona_file) == CacheDir \o "/" \o PathStem(persona_file) \o "_embeddings.json"

\* what may go wrong with the cache during one call of process_persona:
\*   mkdir_raises  cache_dir.mkdir (line 49) raises: the parent directory is missing,
\*                 the directory cannot be created, or its name is taken by a file
\*   read_raises   open or json.load (lines 63-64) raises on the cache file
\*   write         "ok", "fails" (open raises, line 88: the file stays as it is) or
\*                 "partial" (json.dump raises, line 89: a truncated file is left)
NoFault == [mkdir_raises |-> FALSE, read_raises |-> FALSE, write |-> "ok"]

Faults == {NoFault,
           [NoFault EXCEPT !.mkdir_raises = TRUE],
           [NoFault EXCEPT !.read_raises = TRUE],
           [NoFault EXCEPT !.write = "fails"],
           [NoFault EXCEPT !.write = "partial"]}

\* a cache file that does not hold the JSON object _save_to_cache writes
Malformed == [malformed |-> TRUE]

IsMalformed(data) == "malformed" \in DOMAIN data

\* lines 61-70: the pair read from the cache file, or Missing (None): when there is
\* no file, and when reading it raises (except, line 68). The file holds each
\* embedding as a list of numbers, np.array makes a vector of it.
load_from_cache(cache, cache_path, fault) ==
    IF /\ cache_path \in DOMAIN cache
       /\ cache[cache_path] # Missing
       /\ ~fault.read_raises
       /\ ~IsMalformed(Value(cache[cache_path]))
       THEN LET data == Value(cache[cache_path])
            IN  Some(<<data.chunks,
                       [i \in 1..Len(data.embeddings) |-> Vec(data.embeddings[i])]>>)
       ELSE Missing

\* lines 83-90 with nothing written
SaveToCacheWritesNothing(cache, cache_path, chunks, embeddings, fault) == cache

\* lines 83-93: the cache directory after the write; emb.tolist() is the list of
\* numbers. An exception is caught (line 91) and leaves the file as it was or truncated.
save_to_cache(cache, cache_path, chunks, embeddings, fault) ==
    IF fault.write = "fails" THEN cache
    ELSE IF fault.write = "partial" THEN [cache EXCEPT ![cache_path] = Some(Malformed)]
    ELSE [cache EXCEPT ![cache_path] =
             Some([chunks |-> chunks,
                   embeddings |-> [i \in 1..Len(embeddings) |-> embeddings[i].v]])]

\* line 160 with the flag ignored
CacheAlwaysEnabled(caching) == TRUE

\* line 160: get_config('app.cache_embeddings', True)
CacheEnabled(caching) == caching

\* lines 132-135
ResolvePersonaFile(persona_file) ==
    IF ~IsAbs(persona_file) /\ ~StartsWith(persona_file, PersonasDir)
       THEN PathJoin(PersonasDir, persona_file)
       ELSE persona_file

NoPersonaResult(path, cache_path, cache) ==
    [ret |-> Missing, path |-> path, cache_path |-> cache_path, cache |-> cache,
     cache_hit |-> FALSE, doc_read |-> FALSE, encode_calls |-> <<>>, cache_written |-> FALSE]

\* lines 137-141 without the cache check
ProcessPersonaNoCacheCheck(persona_file, files, cache, model, caching, fault) ==
    LET path == ResolvePersonaFile(persona_file)
        cache_path == get_cache_path(path)
        none == NoPersonaResult(path, cache_path, cache)
    IN  IF fault.mkdir_raises \/ FileText(files, path) = Missing THEN none
        ELSE LET chunks == chunk_text(Value(FileText(files, path)),
                                      DefaultChunkSize, DefaultOverlap)
             IN  IF chunks = <<>> \/ ~model THEN [none EXCEPT !.doc_read = TRUE]
                 ELSE [none EXCEPT
                          !.ret = Some(<<chunks, encode(chunks)>>),
                          !.doc_read = TRUE,
                          !.encode_calls = <<chunks>>,
                          !.cache_written = caching /\ fault.write = "ok",
                          !.cache = IF caching
                                       THEN save_to_cache(cache, cache_path, chunks,
                                                          encode(chunks), fault)
                                       ELSE cache]

\* lines 130-167: what process_persona returns and does. ret is the returned pair
\* (Missing for None), cache the cache directory afterwards, encode_calls the batches
\* handed to the embedding model. Reading the persona document succeeds when the
\* file is there; `fault` is what goes wrong with the cache. An exception that
\* _get_cache_path raises is not caught there: it ends the call at line 165.
process_persona(persona_file, files, cache, model, caching, fault) ==
    LET path == ResolvePersonaFile(persona_file)
        cache_path == get_cache_path(path)
        cached_data == load_from_cache(cache, cache_path, fault)
        none == NoPersonaResult(path, cache_path, cache)
    IN  IF fault.mkdir_raises
           THEN none
        ELSE IF cached_data # Missing
           THEN [none EXCEPT !.ret = cached_data, !.cache_hit = TRUE]
        ELSE IF FileText(files, path) = Missing
           THEN none
        ELSE LET chunks == chunk_text(Value(FileText(files, path)),
                                      DefaultChunkSize, DefaultOverlap)
             IN  IF chunks = <<>> \/ ~model
                    THEN [none EXCEPT !.doc_read = TRUE]
                    ELSE LET embeddings == encode(chunks)
                         IN  [none EXCEPT
                                 !.ret = Some(<<chunks, embeddings>>),
                                 !.doc_read = TRUE,
                                 !.encode_calls = <<chunks>>,
                                 !.cache_written = CacheEnabled(caching) /\ fault.write = "ok",
                                 !.cache = IF CacheEnabled(caching)
                                              THEN save_to_cache(cache, cache_path,
                                                                 chunks, embeddings, fault)
                                              ELSE cache]

(***************************************************************************)
(* CharacterBasedAgent                                                     *)
(***************************************************************************)
\* the session: current_character, current_persona_chunks, current_persona_embeddings
Session(character, chunks, embeddings) ==
    [current_character |-> character, chunks |-> chunks, embeddings |-> embeddings]

\* __init__, lines 30-32
Unloaded == Session(Missing, <<>>, <<>>)

\* lines 83-88 with current_character assigned before the result is looked at
SessionAfterLoadNameFirst(session, character_name, result) ==
    IF result = Missing
       THEN [session EXCEPT !.current_character = Some(character_name)]
       ELSE Session(Some(character_name), Value(result)[1], Value(result)[2])

\* lines 83-88 with the new chunks and embeddings added to the ones held
SessionAfterLoadExtends(session, character_name, result) ==
    IF result = Missing
       THEN session
       ELSE Session(Some(character_name),
                    session.chunks \o Value(result)[1],
                    session.embeddings \o Value(result)[2])

\* lines 83-88: no result, nothing is assigned; else the name and the pair
SessionAfterLoad(session, character_name, result) ==
    IF result = Missing
       THEN session
       ELSE Session(Some(character_name), Value(result)[1], Value(result)[2])

\* lines 69-93: load_character as a whole. ok is the return value, config and session
\* the character configuration and the session afterwards, pp what process_persona
\* did (when processed).
load_character(character_name, session, config, files, cache, model, caching, fault) ==
    LET loaded == load_character_config(character_name)
        config_after == IF loaded = Missing THEN config ELSE Value(loaded)
        persona_file == IF loaded = Missing THEN Missing
                        ELSE get_config_persona_file(config_after)
        processed == persona_file # Missing
        pp == IF processed
                 THEN process_persona(Value(persona_file), files, cache, model, caching,
                                      fault)
                 ELSE NoPersonaResult("", "", cache)
    IN  [ok |-> pp.ret # Missing,
         config_found |-> loaded # Missing,
         persona_file |-> persona_file,
         processed |-> processed,
         pp |-> pp,
         config |-> config_after,
         session |-> SessionAfterLoad(session, character_name, pp.ret)]

\* the five values generate_story_and_image returns
Outcome(story, image_prompt, model_name, input_tokens, output_tokens) ==
    [story |-> story, image_prompt |-> image_prompt, model_name |-> model_name,
     input_tokens |-> input_tokens, output_tokens |-> output_tokens]

ErrorOutcome(message) == Outcome(message, message, "unknown", 0, 0)

NoOutcome == Outcome("", "", "", 0, 0)

\* line 120
NoCharacterError == ErrorOutcome("Error: No character loaded")

\* what the generator answers: its text is not modelled
Generated == Outcome("story", "image prompt", "llm", 1, 1)

NoCalls == [outcome |-> NoOutcome, encode_calls |-> <<>>, retrieval_calls |-> <<>>,
            llm_calls |-> <<>>]

\* line 119 without the test
NeverNoCharacter(session) == FALSE

\* line 119
NoCharacterLoaded(session) ==
    \/ session.current_character = Missing
    \/ Value(session.current_character) = ""
    \/ Len(session.chunks) = 0
    \/ Len(session.embeddings) = 0

\* lines 129-134, retrieval_module.py 140-151: one find_relevant_chunks call per
\* query type, the texts of what it returns
get_relevant_context(query_embedding, session, config, reranker) ==
    [query_type \in Facets |->
        LET chunks == find_relevant_chunks(
                          query_embedding, session.embeddings, session.chunks,
                          get_config_retrieval_params(config, query_type),
                          reranker, Raised)
        IN  [i \in 1..Len(chunks) |-> chunks[i].text]]

\* lines 119-150 with the guard of line 119 replaced by an empty context: the
\* generator is called whether or not a persona is loaded
GenerateWithoutGuard(story_prompt, session, config, model, reranker, llm_raises) ==
    IF ~model
       THEN [NoCalls EXCEPT
                !.outcome = ErrorOutcome("Error generating content: "
                                         \o "'NoneType' object is not subscriptable")]
    ELSE LET query_embedding == encode(<<story_prompt>>)[1]
             context == get_relevant_context(query_embedding, session, config, reranker)
             call == [story_prompt |-> story_prompt,
                      persona_context |-> format_context_for_llm(context),
                      image_guidelines |-> JoinStrings(context["style"], "\n"),
                      character |-> session.current_character]
         IN  [outcome |-> IF llm_raises
                             THEN ErrorOutcome("Error generating content: generator")
                             ELSE Generated,
              encode_calls |-> << <<story_prompt>> >>,
              retrieval_calls |-> <<"topic", "style", "timeline">>,
              llm_calls |-> <<call>>]

\* lines 119-155: generate_story_and_image as a whole; llm_raises tells whether the
\* generator raises. No reranker is loaded when the agent calls the retrieval module.
generate_story_and_image(story_prompt, session, config, model, reranker, llm_raises) ==
    IF NoCharacterLoaded(session)
       THEN [NoCalls EXCEPT !.outcome = ErrorOutcome("Error: No character loaded")]
    ELSE IF ~model
       \* get_embeddings returns None, and None[0] raises (line 124)
       THEN [NoCalls EXCEPT
                !.outcome = ErrorOutcome("Error generating content: "
                                         \o "'NoneType' object is not subscriptable")]
    ELSE LET query_embedding == encode(<<story_prompt>>)[1]
             context == get_relevant_context(query_embedding, session, config, reranker)
             call == [story_prompt |-> story_prompt,
                      persona_context |-> format_context_for_llm(context),
                      image_guidelines |-> JoinStrings(context["style"], "\n"),
                      character |-> session.current_character]
         IN  [outcome |-> IF llm_raises
                             THEN ErrorOutcome("Error generating content: generator")
                             ELSE Generated,
              encode_calls |-> << <<story_prompt>> >>,
              retrieval_calls |-> <<"topic", "style", "timeline">>,
              llm_calls |-> <<call>>]

\* main_agent.py:34-50: cleanup as a whole. The two inputs tell whether the cleanup of
\* the persona processor and of the generator raise an exception. The persona
\* processor's cleanup drops the embedding model (persona_processor.py:188-207);
\* the session is cleared in the same try block, after the components (lines 44-46),
\* and the handler of line 49 only logs.
cleanup(session, model, persona_cleanup_raises, llm_cleanup_raises) ==
    IF persona_cleanup_raises
       THEN [session |-> session, model |-> model, raises |-> FALSE]
    ELSE IF llm_cleanup_raises
       THEN [session |-> session, model |-> FALSE, raises |-> FALSE]
    ELSE [session |-> Unloaded, model |-> FALSE, raises |-> FALSE]

\* the retrieval call of SpecRetr, not in use
RetrIdle ==
    /\ rm_query_embedding = None
    /\ rm_doc_chunk_embeddings = <<>>
    /\ rm_doc_chunks_text = <<>>
    /\ rm_params_config = [initial_retrieval |-> Missing, final_retrieval |-> Missing,
                           similarity_threshold |-> Missing]
    /\ rm_reranker_model = FALSE
    /\ rm_query_type = "topic"
    /\ rm_predict = NotCalled
    /\ rm_predict_calls = <<>>
    /\ rm_initial_scores = <<>>
    /\ rm_result = <<>>
    /\ rm_pc = "idle"

\* the chunker call of SpecChunk, not in use
ChunkIdle ==
    /\ ct_text = ""
    /\ ct_chunk_size = DefaultChunkSize
    /\ ct_overlap = DefaultOverlap
    /\ ct_start = 0
    /\ ct_chunks = <<>>
    /\ ct_pc = "idle"

\* what `last` holds before any operation
NoOp ==
    [op |-> "none", character |-> "", ok |-> FALSE,
     config_found |-> FALSE, persona_file |-> Missing, processed |-> FALSE,
     path |-> "", cached |-> Missing, cache_hit |-> FALSE, doc_read |-> FALSE,
     encode_calls |-> <<>>, cache_written |-> FALSE, result |-> Missing,
     caching |-> FALSE, fault |-> NoFault, malformed |-> FALSE, before |-> Unloaded,
     component_raised |-> FALSE, config_before |-> EmptyConfig,
     prompt |-> "", outcome |-> NoOutcome, retrieval_calls |-> <<>>, llm_calls |-> <<>>]

\* the cache file a run of process_persona on a document holding `text` wrote
CacheEntryOf(text) ==
    [chunks |-> chunk_text(text, DefaultChunkSize, DefaultOverlap),
     embeddings |-> [i \in 1..Len(chunk_text(text, DefaultChunkSize, DefaultOverlap)) |->
                        encode(chunk_text(text, DefaultChunkSize, DefaultOverlap))[i].v]]

\* the documents a character configuration names, resolved
ConfiguredPaths == {"personas/himu.txt", "personas/misir.txt", "personas/lost.txt"}

CachePaths == {get_cache_path(path) : path \in ConfiguredPaths}

\* the agent of Spec, not in use
AgentIdle ==
    /\ current_character = Missing
    /\ current_persona_chunks = <<>>
    /\ current_persona_embeddings = <<>>
    /\ character_config = EmptyConfig
    /\ embedding_model = FALSE
    /\ reranker_model = FALSE
    /\ cache_embeddings = FALSE
    /\ persona_files = [path \in PersonaPaths |-> Some("")]
    /\ cache_files = [path \in CachePaths |-> Missing]
    /\ encode_runs = [path \in ConfiguredPaths |-> 0]
    /\ first_result = [path \in ConfiguredPaths |-> Missing]
    /\ last = NoOp

\* the formatter call of SpecFormat, not in use
FormatIdle ==
    /\ fc_context = <<>>
    /\ fc_sections = <<>>
    /\ fc_output = ""
    /\ fc_pc = "idle"

\* what the generate thread holds before it has read anything
NoGenerate ==
    [prompt |-> "", embeddings |-> <<>>, chunks |-> <<>>, character |-> Missing,
     context |-> "", outcome |-> NoOutcome]

NoLoad == [character_name |-> "", result |-> Missing]

\* the two threads of SpecRace, not in use
ThreadsIdle ==
    /\ g_pc = "idle"
    /\ g_local = NoGenerate
    /\ g_raced = FALSE
    /\ l_pc = "idle"
    /\ l_local = NoLoad

\* what api_last holds before any request; success is what the load of the request
\* returned
NoRequest ==
    [user |-> "", endpoint |-> "", character |-> Missing, story_idea |-> "",
     success |-> FALSE,
     outcome |-> NoOutcome, answered_from |-> Missing, owner |-> Missing,
     history |-> Missing]

\* the API of SpecApi, not in use
ApiIdle == session_owner = Missing /\ api_last = NoRequest

\* what listed holds before any call
NoListing == [op |-> "none", listdir |-> <<>>, characters |-> <<>>,
              character_name |-> Missing, config_file |-> Missing]

\* the ConfigLoader of SpecListing, not in use: the directory of the agent's model
ListingIdle == config_dir = DOMAIN CharacterConfigFiles /\ listed = NoListing

AuxIdle ==
    /\ FormatIdle
    /\ io_faults = {NoFault}
    /\ ThreadsIdle
    /\ ApiIdle
    /\ configured_chunking = Missing
    /\ ListingIdle

(***************************************************************************)
(* SpecChunk: one call of chunk_text, one loop iteration per step.         *)
(***************************************************************************)
\* the loop of an invalid call never ends: the model stops following it here
MaxIter == MaxTextLen + 2

ValidChunkParams(chunk_size, overlap) ==
    chunk_size > overlap /\ overlap >= 0 /\ chunk_size > 0

InitChunk ==
    /\ RetrIdle
    /\ AgentIdle
    /\ AuxIdle
    /\ ct_text \in Strings(MaxTextLen)
    /\ ct_chunk_size \in 0..MaxChunkSize
    /\ ct_overlap \in (0 - 1)..MaxChunkSize
    /\ ct_start = 0
    /\ ct_chunks = <<>>
    /\ ct_pc = "call"

\* lines 106-110: if not text: return []; chunks = []; start = 0
ChunkCall ==
    /\ ct_pc = "call"
    /\ ct_chunks' = <<>>
    /\ ct_start' = 0
    /\ ct_pc' = IF ct_text = "" THEN "done" ELSE "loop"
    /\ UNCHANGED <<ct_text, ct_chunk_size, ct_overlap, rm_vars, ag_vars, aux_vars>>

\* lines 111-117: one iteration of the while loop
ChunkIter ==
    /\ ct_pc = "loop"
    /\ ct_start < Len(ct_text)
    /\ Len(ct_chunks) < MaxIter
    /\ LET end == ChunkEnd(ct_start, ct_chunk_size)
       IN  /\ ct_chunks' = Append(ct_chunks, PySlice(ct_text, ct_start, end))
           /\ IF end >= Len(ct_text)
                 THEN ct_pc' = "done" /\ ct_start' = ct_start
                 ELSE /\ ct_pc' = "loop"
                      /\ ct_start' = NextStart(ct_start, ct_chunk_size, ct_overlap)
    /\ UNCHANGED <<ct_text, ct_chunk_size, ct_overlap, rm_vars, ag_vars, aux_vars>>

\* line 111 false, line 119: the while condition fails, return chunks
ChunkExit ==
    /\ ct_pc = "loop"
    /\ ~(ct_start < Len(ct_text))
    /\ ct_pc' = "done"
    /\ UNCHANGED <<ct_text, ct_chunk_size, ct_overlap, ct_start, ct_chunks, rm_vars, ag_vars, aux_vars>>

NextChunk == ChunkCall \/ ChunkIter \/ ChunkExit

SpecChunk == InitChunk /\ [][NextChunk]_vars

\* a persona text of 1500 characters
Text1500 == PySlice(Repeat("abcdefg", 215), 0, 1500)

\* the calls of SpecChunk, and the call chunk_text(Text1500) with the defaults of
\* line 95
InitChunkScheduled ==
    /\ RetrIdle
    /\ AgentIdle
    /\ AuxIdle
    /\ \/ /\ ct_text \in Strings(MaxTextLen)
          /\ ct_chunk_size \in 0..MaxChunkSize
          /\ ct_overlap \in (0 - 1)..MaxChunkSize
       \/ /\ ct_text = Text1500
          /\ ct_chunk_size = DefaultChunkSize
          /\ ct_overlap = DefaultOverlap
    /\ ct_start = 0
    /\ ct_chunks = <<>>
    /\ ct_pc = "call"

\* chunk_text is straight-line Python: a call that can take a step takes it
SpecChunkScheduled == InitChunkScheduled /\ [][NextChunk]_vars /\ WF_vars(NextChunk)

(***************************************************************************)
(* SpecRetr: one call of find_relevant_chunks on inputs drawn from bounded *)
(* sets. Chunk i has the text ChunkTexts[i].                               *)
(***************************************************************************)
ChunkTexts == [i \in 1..(MaxChunks + 1) |-> SubSeq("abcdefgh", i, i)]

\* configured initial_retrieval / final_retrieval: absent (the default applies), or set
RetrievalCounts == {Missing, Some(0), Some(2)}

Thresholds == {Missing, Some(0), Some(80)}

RerankScores == {1, 2}

\* what predict may do when handed n pairs: raise, return n scores, or too few
PredictOutcomes(n) ==
    {Raised} \cup {Returned(q) : q \in SeqsOfLen(RerankScores, n)
                                      \cup SeqsOfLen(RerankScores, Max(n - 1, 0))}

InitRetr ==
    /\ ChunkIdle
    /\ AgentIdle
    /\ AuxIdle
    /\ rm_query_embedding \in QueryEmbeddings
    /\ rm_doc_chunk_embeddings \in SeqsUpTo(ChunkEmbeddings, MaxChunks)
    /\ rm_doc_chunks_text = SubSeq(ChunkTexts, 1, Len(rm_doc_chunk_embeddings))
    /\ rm_params_config \in [initial_retrieval : RetrievalCounts,
                             final_retrieval : RetrievalCounts,
                             similarity_threshold : Thresholds]
    /\ rm_reranker_model \in BOOLEAN
    /\ rm_query_type = "topic"
    /\ rm_predict = NotCalled
    /\ rm_predict_calls = <<>>
    /\ rm_initial_scores = <<>>
    /\ rm_result = <<>>
    /\ rm_pc = "call"

FindRelevantChunks ==
    /\ rm_pc = "call"
    /\ LET top_chunks == CoarseTop(rm_query_embedding, rm_doc_chunk_embeddings,
                                   rm_doc_chunks_text, rm_params_config)
       IN  \E outcome \in IF RerankerInvoked(top_chunks, rm_reranker_model)
                             THEN PredictOutcomes(Len(top_chunks))
                             ELSE {NotCalled} :
               /\ rm_predict' = outcome
               /\ rm_predict_calls' =
                      IF RerankerInvoked(top_chunks, rm_reranker_model)
                         THEN <<SentencePairs(rm_query_type, top_chunks)>>
                         ELSE <<>>
               /\ rm_result' = find_relevant_chunks(
                                   rm_query_embedding, rm_doc_chunk_embeddings,
                                   rm_doc_chunks_text, rm_params_config,
                                   rm_reranker_model, outcome)
    /\ rm_initial_scores' =
           IF EmptyInput(rm_query_embedding, rm_doc_chunk_embeddings, rm_doc_chunks_text)
              THEN <<>>
              ELSE InitialScores(rm_query_embedding, rm_doc_chunk_embeddings,
                                 rm_doc_chunks_text,
                                 get_retrieval_params(rm_params_config).similarity_threshold)
    /\ rm_pc' = "returned"
    /\ UNCHANGED <<rm_query_embedding, rm_doc_chunk_embeddings, rm_doc_chunks_text,
                   rm_params_config, rm_reranker_model, rm_query_type, ct_vars, ag_vars,
                   aux_vars>>

NextRetr == FindRelevantChunks

SpecRetr == InitRetr /\ [][NextRetr]_vars

\* SpecRetr on the facet configurations whose final_retrieval is at most their
\* initial_retrieval
InitRetrOrdered ==
    /\ InitRetr
    /\ get_retrieval_params(rm_params_config).final_retrieval
           <= get_retrieval_params(rm_params_config).initial_retrieval

SpecRetrOrdered == InitRetrOrdered /\ [][NextRetr]_vars

(***************************************************************************)
(* SpecRerank: one call of find_relevant_chunks for any query type, with   *)
(* or without a reranker, on chunks that all have a usable embedding.      *)
(***************************************************************************)
RerankChunkEmbeddings == {Vec(<<1, 0>>), Vec(<<0, 1>>), Vec(<<1, 1>>)}

RerankQueryEmbeddings == {Vec(<<1, 0>>), Vec(<<1, 1>>)}

InitRerank ==
    /\ ChunkIdle
    /\ AgentIdle
    /\ AuxIdle
    /\ rm_query_embedding \in RerankQueryEmbeddings
    /\ rm_doc_chunk_embeddings \in SeqsUpTo(RerankChunkEmbeddings, MaxChunks)
    /\ rm_doc_chunks_text = SubSeq(ChunkTexts, 1, Len(rm_doc_chunk_embeddings))
    /\ rm_params_config \in [initial_retrieval : RetrievalCounts,
                             final_retrieval : {Missing, Some(2)},
                             similarity_threshold : {Some(0)}]
    /\ rm_reranker_model \in BOOLEAN
    /\ rm_query_type \in Facets
    /\ rm_predict = NotCalled
    /\ rm_predict_calls = <<>>
    /\ rm_initial_scores = <<>>
    /\ rm_result = <<>>
    /\ rm_pc = "call"

SpecRerank == InitRerank /\ [][NextRetr]_vars

(***************************************************************************)
(* SpecCoarse: one call of find_relevant_chunks without a reranker, on     *)
(* chunk embeddings that may be None, all-zero, or of another dimension    *)
(* than the query embedding (cosine_similarity raises on those).           *)
(***************************************************************************)
CoarseChunkEmbeddings == {None, Vec(<<0, 0>>), Vec(<<1>>), Vec(<<1, 0>>), Vec(<<0, 1>>)}

CoarseQueryEmbeddings == {None, Vec(<<0, 0>>), Vec(<<1, 0>>), Vec(<<1, 1>>)}

CoarseThresholds == {Missing, Some(0), Some(100)}

InitCoarse ==
    /\ ChunkIdle
    /\ AgentIdle
    /\ AuxIdle
    /\ rm_query_embedding \in CoarseQueryEmbeddings
    /\ rm_doc_chunk_embeddings \in SeqsUpTo(CoarseChunkEmbeddings, MaxChunks)
    /\ rm_doc_chunks_text = SubSeq(ChunkTexts, 1, Len(rm_doc_chunk_embeddings))
    /\ rm_params_config \in [initial_retrieval : RetrievalCounts,
                             final_retrieval : {Missing},
                             similarity_threshold : CoarseThresholds]
    /\ rm_reranker_model = FALSE
    /\ rm_query_type = "topic"
    /\ rm_predict = NotCalled
    /\ rm_predict_calls = <<>>
    /\ rm_initial_scores = <<>>
    /\ rm_result = <<>>
    /\ rm_pc = "call"

SpecCoarse == InitCoarse /\ [][NextRetr]_vars

(***************************************************************************)
(* SpecFormat: one call of format_context_for_llm. The argument is a dict; *)
(* it is given as the sequence of its (key, list) pairs in key order.      *)
(***************************************************************************)
MaxFacetChunks == 2     \* most chunk texts under one key of the context

FacetChunkTexts == {"x", "y"}

Distinct(seq) == \A i, j \in 1..Len(seq) : i # j => seq[i] # seq[j]

\* the key orders a context may have: some of the facets, each once, in any order
KeyOrders == {keys \in SeqsUpTo(Facets, Cardinality(Facets)) : Distinct(keys)}

Contexts ==
    UNION {{[i \in 1..Len(keys) |-> <<keys[i], lists[i]>>] :
               lists \in [1..Len(keys) -> SeqsUpTo(FacetChunkTexts, MaxFacetChunks)]} :
           keys \in KeyOrders}

\* 'key in context' and context[key]: the dict as a function on its keys
DictOf(pairs) ==
    [key \in {pairs[i][1] : i \in 1..Len(pairs)} |->
        pairs[CHOOSE i \in 1..Len(pairs) : pairs[i][1] = key][2]]

InitFormat ==
    /\ ChunkIdle
    /\ RetrIdle
    /\ AgentIdle
    /\ io_faults = {NoFault}
    /\ ThreadsIdle
    /\ ApiIdle
    /\ configured_chunking = Missing
    /\ ListingIdle
    /\ fc_context \in Contexts
    /\ fc_sections = <<>>
    /\ fc_output = ""
    /\ fc_pc = "call"

FormatContextForLlm ==
    /\ fc_pc = "call"
    /\ fc_sections' = FormatSections(DictOf(fc_context))
    /\ fc_output' = format_context_for_llm(DictOf(fc_context))
    /\ fc_pc' = "returned"
    /\ UNCHANGED <<fc_context, io_faults, th_vars, api_vars, configured_chunking, cd_vars, ct_vars,
                   rm_vars, ag_vars>>

NextFormat == FormatContextForLlm

SpecFormat == InitFormat /\ [][NextFormat]_vars

(***************************************************************************)
(* Spec: the agent. load_character and generate_story_and_image are called *)
(* in any order; between calls a persona document may be edited on disk.   *)
(***************************************************************************)
CurrentSession ==
    Session(current_character, current_persona_chunks, current_persona_embeddings)

\* the cache starts empty, or holds entries written by earlier runs of the program
\* on the text a document had then
Init ==
    /\ ChunkIdle
    /\ RetrIdle
    /\ AuxIdle
    /\ current_character = Missing
    /\ current_persona_chunks = <<>>
    /\ current_persona_embeddings = <<>>
    /\ character_config = EmptyConfig
    /\ embedding_model \in BOOLEAN
    /\ reranker_model = FALSE
    /\ cache_embeddings \in BOOLEAN
    /\ persona_files \in {files \in [PersonaPaths -> {Some(text) : text \in DocTexts
                                                                       \cup {FixedText}}] :
                              /\ files[EditedPath] # Some(FixedText)
                              /\ \A path \in PersonaPaths \ {EditedPath} :
                                     files[path] = Some(FixedText)}
    /\ cache_files \in
           {cache \in [CachePaths -> {Missing, Some(CacheEntryOf("a")),
                                      Some(CacheEntryOf(FixedText))}] :
               \A path \in ConfiguredPaths :
                   cache[get_cache_path(path)] \in
                       IF path = EditedPath THEN {Missing, Some(CacheEntryOf("a"))}
                       ELSE IF path \in PersonaPaths
                          THEN {Missing, Some(CacheEntryOf(FixedText))}
                       ELSE {Missing}}
    /\ encode_runs = [path \in ConfiguredPaths |-> 0]
    /\ first_result = [path \in ConfiguredPaths |-> Missing]
    /\ last = NoOp

LoadCharacter(character_name) ==
    \E fault \in io_faults :
    LET r == load_character(character_name, CurrentSession, character_config,
                            persona_files, cache_files, embedding_model, cache_embeddings,
                            fault)
        path == r.pp.path
        runs == IF r.processed
                   THEN [encode_runs EXCEPT
                            ![path] = Min(@ + Len(r.pp.encode_calls), MaxEncodeRuns)]
                   ELSE encode_runs
    IN  /\ current_character' = r.session.current_character
        /\ current_persona_chunks' = r.session.chunks
        /\ current_persona_embeddings' = r.session.embeddings
        /\ character_config' = r.config
        /\ cache_files' = r.pp.cache
        /\ encode_runs' = runs
        /\ first_result' =
               IF r.processed /\ r.pp.ret # Missing /\ first_result[path] = Missing
                  THEN [first_result EXCEPT ![path] = r.pp.ret]
                  ELSE first_result
        /\ last' = [NoOp EXCEPT
                       !.op = "load_character",
                       !.character = character_name,
                       !.ok = r.ok,
                       !.config_found = r.config_found,
                       !.persona_file = r.persona_file,
                       !.processed = r.processed,
                       !.path = path,
                       !.cached = IF r.processed
                                     THEN load_from_cache(cache_files, r.pp.cache_path,
                                                          fault)
                                     ELSE Missing,
                       !.cache_hit = r.pp.cache_hit,
                       !.doc_read = r.pp.doc_read,
                       !.encode_calls = r.pp.encode_calls,
                       !.cache_written = r.pp.cache_written,
                       !.result = r.pp.ret,
                       !.caching = cache_embeddings,
                       !.fault = fault,
                       !.config_before = character_config,
                       !.malformed = /\ r.processed
                                     /\ cache_files[r.pp.cache_path] # Missing
                                     /\ IsMalformed(Value(cache_files[r.pp.cache_path])),
                       !.before = CurrentSession]
        /\ UNCHANGED <<embedding_model, reranker_model, cache_embeddings, persona_files,
                       ct_vars, rm_vars, aux_vars>>

\* the environment: a persona document gets a new text
EditPersona(path, text) ==
    /\ persona_files[path] # Some(text)
    /\ persona_files' = [persona_files EXCEPT ![path] = Some(text)]
    /\ last' = [NoOp EXCEPT !.op = "edit_persona", !.path = path, !.before = CurrentSession]
    /\ UNCHANGED <<current_character, current_persona_chunks, current_persona_embeddings,
                   character_config, embedding_model, reranker_model, cache_embeddings,
                   cache_files, encode_runs, first_result, ct_vars, rm_vars, aux_vars>>

\* the story ideas generate_story_and_image is called with
Prompts == {"a", "b"}

GenerateStoryAndImage(story_prompt) ==
    \E llm_raises \in BOOLEAN :
        LET g == generate_story_and_image(story_prompt, CurrentSession, character_config,
                                          embedding_model, reranker_model, llm_raises)
        IN  /\ last' = [NoOp EXCEPT
                           !.op = "generate_story_and_image",
                           !.prompt = story_prompt,
                           !.outcome = g.outcome,
                           !.encode_calls = g.encode_calls,
                           !.retrieval_calls = g.retrieval_calls,
                           !.llm_calls = g.llm_calls,
                           !.before = CurrentSession]
            /\ UNCHANGED <<current_character, current_persona_chunks,
                           current_persona_embeddings, character_config, embedding_model,
                           reranker_model, cache_embeddings, persona_files, cache_files,
                           encode_runs, first_result, ct_vars, rm_vars, aux_vars>>

Next ==
    \/ \E character_name \in CharacterNames : LoadCharacter(character_name)
    \/ \E story_prompt \in Prompts : GenerateStoryAndImage(story_prompt)
    \/ \E text \in DocTexts : EditPersona(EditedPath, text)

Spec == Init /\ [][Next]_vars

(***************************************************************************)
(* SpecFaults: loads by the agent of Spec, with an embedding model, in an   *)
(* environment where cache I/O may fail and a cache file may be malformed. *)
(***************************************************************************)
InitFaults ==
    /\ ChunkIdle
    /\ RetrIdle
    /\ FormatIdle
    /\ ThreadsIdle
    /\ ApiIdle
    /\ configured_chunking = Missing
    /\ ListingIdle
    /\ io_faults = Faults
    /\ current_character = Missing
    /\ current_persona_chunks = <<>>
    /\ current_persona_embeddings = <<>>
    /\ character_config = EmptyConfig
    /\ embedding_model = TRUE
    /\ reranker_model = FALSE
    /\ cache_embeddings \in BOOLEAN
    /\ persona_files = [path \in PersonaPaths |->
                           Some(IF path = EditedPath THEN "a" ELSE FixedText)]
    /\ cache_files \in
           {cache \in [CachePaths -> {Missing, Some(CacheEntryOf("a")), Some(Malformed)}] :
               \A path \in ConfiguredPaths :
                   path # EditedPath => cache[get_cache_path(path)] = Missing}
    /\ encode_runs = [path \in ConfiguredPaths |-> 0]
    /\ first_result = [path \in ConfiguredPaths |-> Missing]
    /\ last = NoOp

\* the characters loaded in SpecFaults
FaultCharacters == {"himu", "misir"}

NextFaults == \E character_name \in FaultCharacters : LoadCharacter(character_name)

SpecFaults == InitFaults /\ [][NextFaults]_vars

(***************************************************************************)
(* SpecRace: one agent used by two threads without a lock. One thread runs *)
(* generate_story_and_image, the other load_character; each step is one    *)
(* statement (one read or one assignment of a session field).              *)
(***************************************************************************)
RaceCharacters == {"himu", "misir", "lost"}

InitRace ==
    /\ ChunkIdle
    /\ RetrIdle
    /\ FormatIdle
    /\ ThreadsIdle
    /\ ApiIdle
    /\ configured_chunking = Missing
    /\ ListingIdle
    /\ io_faults = {NoFault}
    /\ current_character = Missing
    /\ current_persona_chunks = <<>>
    /\ current_persona_embeddings = <<>>
    /\ character_config = EmptyConfig
    /\ embedding_model = TRUE
    /\ reranker_model = FALSE
    /\ cache_embeddings = FALSE
    /\ persona_files = [path \in PersonaPaths |->
                           Some(IF path = EditedPath THEN "a" ELSE FixedText)]
    /\ cache_files = [path \in CachePaths |-> Missing]
    /\ encode_runs = [path \in ConfiguredPaths |-> 0]
    /\ first_result = [path \in ConfiguredPaths |-> Missing]
    /\ last = NoOp

GenerateInFlight == g_pc \notin {"idle", "done"}

\* main_agent.py:119-120: the guard; a call starts when the last one has returned
GenGuard(story_prompt) ==
    /\ g_pc \in {"idle", "done"}
    /\ g_raced' = (l_pc # "idle")
    /\ IF NoCharacterLoaded(CurrentSession)
          THEN /\ g_pc' = "done"
               /\ g_local' = [NoGenerate EXCEPT !.prompt = story_prompt,
                                                !.outcome = NoCharacterError]
          ELSE /\ g_pc' = "read_embeddings"
               /\ g_local' = [NoGenerate EXCEPT !.prompt = story_prompt]
    /\ UNCHANGED <<l_pc, l_local, fc_vars, io_faults, api_vars, configured_chunking, cd_vars, ct_vars,
                   rm_vars, ag_vars>>

\* line 132, after the query embedding of line 124: self.current_persona_embeddings
GenReadEmbeddings ==
    /\ g_pc = "read_embeddings"
    /\ g_local' = [g_local EXCEPT !.embeddings = current_persona_embeddings]
    /\ g_pc' = "read_chunks"
    /\ UNCHANGED <<g_raced, l_pc, l_local, fc_vars, io_faults, api_vars, configured_chunking, cd_vars, ct_vars,
                   rm_vars, ag_vars>>

\* line 133: self.current_persona_chunks
GenReadChunks ==
    /\ g_pc = "read_chunks"
    /\ g_local' = [g_local EXCEPT !.chunks = current_persona_chunks]
    /\ g_pc' = "generate"
    /\ UNCHANGED <<g_raced, l_pc, l_local, fc_vars, io_faults, api_vars, configured_chunking, cd_vars, ct_vars,
                   rm_vars, ag_vars>>

\* lines 129-150: retrieval on what was read, then the generator is called with
\* self.current_character as it is by then (line 147)
GenCallLlm ==
    /\ g_pc = "generate"
    /\ LET context == get_relevant_context(
                           encode(<<g_local.prompt>>)[1],
                           Session(current_character, g_local.chunks, g_local.embeddings),
                           character_config, reranker_model)
       IN  g_local' = [g_local EXCEPT !.character = current_character,
                                      !.context = format_context_for_llm(context),
                                      !.outcome = Generated]
    /\ g_pc' = "done"
    /\ UNCHANGED <<g_raced, l_pc, l_local, fc_vars, io_faults, api_vars, configured_chunking, cd_vars, ct_vars,
                   rm_vars, ag_vars>>

\* lines 69-85: configuration and persona processing; a failure returns False
LoadProcess(character_name) ==
    /\ l_pc = "idle"
    /\ LET r == load_character(character_name, CurrentSession, character_config,
                               persona_files, cache_files, embedding_model,
                               cache_embeddings, NoFault)
       IN  /\ character_config' = r.config
           /\ cache_files' = r.pp.cache
           /\ l_local' = [character_name |-> character_name, result |-> r.pp.ret]
           /\ l_pc' = IF r.ok THEN "set_character" ELSE "idle"
    /\ UNCHANGED <<current_character, current_persona_chunks, current_persona_embeddings,
                   embedding_model, reranker_model, cache_embeddings, persona_files,
                   encode_runs, first_result, last,
                   g_pc, g_local, g_raced, fc_vars, io_faults, api_vars, configured_chunking, cd_vars, ct_vars,
                   rm_vars>>

\* line 87: self.current_character = character_name
LoadSetCharacter ==
    /\ l_pc = "set_character"
    /\ current_character' = Some(l_local.character_name)
    /\ l_pc' = "set_chunks"
    /\ g_raced' = (g_raced \/ GenerateInFlight)
    /\ UNCHANGED <<current_persona_chunks, current_persona_embeddings, character_config,
                   embedding_model, reranker_model, cache_embeddings, persona_files,
                   cache_files, encode_runs, first_result, last,
                   g_pc, g_local, l_local, fc_vars, io_faults, api_vars, configured_chunking, cd_vars, ct_vars,
                   rm_vars>>

\* line 88, first target: self.current_persona_chunks = result[0]
LoadSetChunks ==
    /\ l_pc = "set_chunks"
    /\ current_persona_chunks' = Value(l_local.result)[1]
    /\ l_pc' = "set_embeddings"
    /\ g_raced' = (g_raced \/ GenerateInFlight)
    /\ UNCHANGED <<current_character, current_persona_embeddings, character_config,
                   embedding_model, reranker_model, cache_embeddings, persona_files,
                   cache_files, encode_runs, first_result, last,
                   g_pc, g_local, l_local, fc_vars, io_faults, api_vars, configured_chunking, cd_vars, ct_vars,
                   rm_vars>>

\* a load that returns after assigning the chunk texts only
LoadReturnsBeforeEmbeddings ==
    /\ l_pc = "set_embeddings"
    /\ l_pc' = "idle"
    /\ g_raced' = (g_raced \/ GenerateInFlight)
    /\ UNCHANGED <<ag_vars, g_pc, g_local, l_local, fc_vars, io_faults, api_vars, configured_chunking, cd_vars, ct_vars,
                   rm_vars>>

\* line 88, second target: self.current_persona_embeddings = result[1]; return True
LoadSetEmbeddings ==
    /\ l_pc = "set_embeddings"
    /\ current_persona_embeddings' = Value(l_local.result)[2]
    /\ l_pc' = "idle"
    /\ g_raced' = (g_raced \/ GenerateInFlight)
    /\ UNCHANGED <<current_character, current_persona_chunks, character_config,
                   embedding_model, reranker_model, cache_embeddings, persona_files,
                   cache_files, encode_runs, first_result, last,
                   g_pc, g_local, l_local, fc_vars, io_faults, api_vars, configured_chunking, cd_vars, ct_vars,
                   rm_vars>>

NextRace ==
    \/ \E story_prompt \in Prompts : GenGuard(story_prompt)
    \/ GenReadEmbeddings
    \/ GenReadChunks
    \/ GenCallLlm
    \/ \E character_name \in RaceCharacters : LoadProcess(character_name)
    \/ LoadSetCharacter
    \/ LoadSetChunks
    \/ LoadSetEmbeddings

SpecRace == InitRace /\ [][NextRace]_vars

(***************************************************************************)
(* SpecApi: the HTTP API. api_server.py creates one CharacterBasedAgent    *)
(* when the module is imported (line 53) and every request of every user   *)
(* is served by it. A handler calls the agent without awaiting in between, *)
(* so a request is one step.                                               *)
(***************************************************************************)
Users == {"u1", "u2"}

ApiCharacters == {"himu", "misir", "lost"}

InitApi ==
    /\ ChunkIdle
    /\ RetrIdle
    /\ FormatIdle
    /\ ThreadsIdle
    /\ ApiIdle
    /\ configured_chunking = Missing
    /\ ListingIdle
    /\ io_faults = {NoFault}
    /\ current_character = Missing
    /\ current_persona_chunks = <<>>
    /\ current_persona_embeddings = <<>>
    /\ character_config = EmptyConfig
    /\ embedding_model = TRUE
    /\ reranker_model = FALSE
    /\ cache_embeddings \in BOOLEAN
    /\ persona_files = [path \in PersonaPaths |->
                           Some(IF path = EditedPath THEN "a" ELSE FixedText)]
    /\ cache_files = [path \in CachePaths |-> Missing]
    /\ encode_runs = [path \in ConfiguredPaths |-> 0]
    /\ first_result = [path \in ConfiguredPaths |-> Missing]
    /\ last = NoOp

\* the agent after agent.load_character(character): r is what load_character did
AgentAfterLoad(r) ==
    /\ current_character' = r.session.current_character
    /\ current_persona_chunks' = r.session.chunks
    /\ current_persona_embeddings' = r.session.embeddings
    /\ character_config' = r.config
    /\ cache_files' = r.pp.cache
    /\ UNCHANGED <<embedding_model, reranker_model, cache_embeddings, persona_files,
                   encode_runs, first_result, last>>

\* api_server.py:293-300, POST /load_character
ApiLoadCharacter(user, character) ==
    LET r == load_character(character, CurrentSession, character_config, persona_files,
                            cache_files, embedding_model, cache_embeddings, NoFault)
    IN  /\ AgentAfterLoad(r)
        /\ session_owner' = IF r.ok THEN Some(user) ELSE session_owner
        /\ api_last' = [NoRequest EXCEPT !.user = user,
                                         !.endpoint = "/load_character",
                                         !.character = Some(character),
                                         !.success = r.ok,
                                         !.owner = session_owner']
        /\ UNCHANGED <<fc_vars, io_faults, th_vars, configured_chunking, cd_vars, ct_vars, rm_vars>>

\* api_server.py:302-313, POST /generate: the character is optional, and the result
\* of the load is not looked at
ApiGenerate(user, character, story_prompt) ==
    LET loads == character # Missing /\ Value(character) # ""
        r == load_character(IF loads THEN Value(character) ELSE "", CurrentSession,
                            character_config, persona_files, cache_files,
                            embedding_model, cache_embeddings, NoFault)
        session == IF loads THEN r.session ELSE CurrentSession
        config == IF loads THEN r.config ELSE character_config
        g == generate_story_and_image(story_prompt, session, config, embedding_model,
                                      reranker_model, FALSE)
    IN  /\ IF loads THEN AgentAfterLoad(r) ELSE UNCHANGED ag_vars
        /\ session_owner' = IF loads /\ r.ok THEN Some(user) ELSE session_owner
        /\ api_last' = [NoRequest EXCEPT
                            !.user = user,
                            !.endpoint = "/generate",
                            !.character = character,
                            !.story_idea = story_prompt,
                            !.success = loads /\ r.ok,
                            !.outcome = g.outcome,
                            \* lines 334-337: the row added to the history table
                            !.history = Some([character |-> character,
                                              story |-> g.outcome.story]),
                            !.answered_from = IF g.llm_calls = <<>> THEN Missing
                                              ELSE g.llm_calls[1].character,
                            !.owner = session_owner']
        /\ UNCHANGED <<fc_vars, io_faults, th_vars, configured_chunking, cd_vars, ct_vars, rm_vars>>

NextApi ==
    \/ \E user \in Users, character \in ApiCharacters : ApiLoadCharacter(user, character)
    \/ \E user \in Users, character \in {Missing} \cup {Some(c) : c \in ApiCharacters},
          story_prompt \in Prompts :
           ApiGenerate(user, character, story_prompt)

SpecApi == InitApi /\ [][NextApi]_vars

(***************************************************************************)
(* SpecCleanup: an agent that loads characters and is cleaned up. The      *)
(* cleanup of a component either returns or raises.                        *)
(***************************************************************************)
InitCleanup == InitApi

Cleanup(persona_cleanup_raises, llm_cleanup_raises) ==
    LET c == cleanup(CurrentSession, embedding_model, persona_cleanup_raises,
                     llm_cleanup_raises)
    IN  /\ current_character' = c.session.current_character
        /\ current_persona_chunks' = c.session.chunks
        /\ current_persona_embeddings' = c.session.embeddings
        /\ embedding_model' = c.model
        /\ last' = [NoOp EXCEPT
                       !.op = "cleanup",
                       !.ok = ~c.raises,
                       !.component_raised = persona_cleanup_raises \/ llm_cleanup_raises,
                       !.before = CurrentSession]
        /\ UNCHANGED <<character_config, reranker_model, cache_embeddings, persona_files,
                       cache_files, encode_runs, first_result, ct_vars, rm_vars, aux_vars>>

NextCleanup ==
    \/ \E character_name \in ApiCharacters : LoadCharacter(character_name)
    \/ \E persona_cleanup_raises, llm_cleanup_raises \in BOOLEAN :
           Cleanup(persona_cleanup_raises, llm_cleanup_raises)

SpecCleanup == InitCleanup /\ [][NextCleanup]_vars

(***************************************************************************)
(* SpecChunking: loads under a main configuration that gives a chunk size  *)
(* and an overlap. ConfigLoader.get_config hands out any key of the main   *)
(* configuration; process_persona asks it for directories.personas,        *)
(* directories.cache and app.cache_embeddings only.                        *)
(***************************************************************************)
ConfiguredChunkings ==
    {[chunk_size |-> DefaultChunkSize, overlap |-> DefaultOverlap],
     [chunk_size |-> 300, overlap |-> 50]}

InitChunking ==
    /\ ChunkIdle
    /\ RetrIdle
    /\ FormatIdle
    /\ ThreadsIdle
    /\ ApiIdle
    /\ io_faults = {NoFault}
    /\ configured_chunking \in {Some(c) : c \in ConfiguredChunkings}
    /\ ListingIdle
    /\ current_character = Missing
    /\ current_persona_chunks = <<>>
    /\ current_persona_embeddings = <<>>
    /\ character_config = EmptyConfig
    /\ embedding_model = TRUE
    /\ reranker_model = FALSE
    /\ cache_embeddings \in BOOLEAN
    /\ persona_files \in {[path \in PersonaPaths |->
                              Some(IF path = EditedPath THEN text ELSE FixedText)] :
                              text \in {"a", LongText}}
    /\ cache_files = [path \in CachePaths |-> Missing]
    /\ encode_runs = [path \in ConfiguredPaths |-> 0]
    /\ first_result = [path \in ConfiguredPaths |-> Missing]
    /\ last = NoOp

NextChunking ==
    \/ \E character_name \in ApiCharacters : LoadCharacter(character_name)
    \/ \E text \in {"a", LongText} : EditPersona(EditedPath, text)

SpecChunking == InitChunking /\ [][NextChunking]_vars

(***************************************************************************)
(* SpecStems: process_persona called for persona files whose names differ  *)
(* in the directory or in the extension only. The cache is empty at first  *)
(* and no document changes, so that what the cache holds was computed from *)
(* the documents as they are.                                              *)
(***************************************************************************)
\* persona_file arguments, as a character configuration may give them
StemFiles == {"himu.txt", "old/himu.txt", "himu.md", "misir.txt"}

StemPaths == {ResolvePersonaFile(persona_file) : persona_file \in StemFiles}

\* every document has a text of its own
StemTexts ==
    [path \in StemPaths |->
        IF path = "personas/himu.txt" THEN "a"
        ELSE IF path = "personas/old/himu.txt" THEN "b"
        ELSE IF path = "personas/himu.md" THEN "ab"
        ELSE "ba"]

InitStems ==
    /\ ChunkIdle
    /\ RetrIdle
    /\ AuxIdle
    /\ current_character = Missing
    /\ current_persona_chunks = <<>>
    /\ current_persona_embeddings = <<>>
    /\ character_config = EmptyConfig
    /\ embedding_model \in BOOLEAN
    /\ reranker_model = FALSE
    /\ cache_embeddings \in BOOLEAN
    /\ persona_files \in {files \in [StemPaths -> {Missing} \cup
                                           {Some(StemTexts[path]) : path \in StemPaths}] :
                              \A path \in StemPaths :
                                  files[path] \in {Missing, Some(StemTexts[path])}}
    /\ cache_files = [cache_path \in {get_cache_path(path) : path \in StemPaths} |-> Missing]
    /\ encode_runs = [path \in ConfiguredPaths |-> 0]
    /\ first_result = [path \in ConfiguredPaths |-> Missing]
    /\ last = NoOp

\* persona_processor.py:121-167, one call
ProcessPersona(persona_file) ==
    LET pp == process_persona(persona_file, persona_files, cache_files, embedding_model,
                              cache_embeddings, NoFault)
    IN  /\ cache_files' = pp.cache
        /\ last' = [NoOp EXCEPT
                       !.op = "process_persona",
                       !.persona_file = Some(persona_file),
                       !.processed = TRUE,
                       !.path = pp.path,
                       !.cached = load_from_cache(cache_files, pp.cache_path, NoFault),
                       !.cache_hit = pp.cache_hit,
                       !.doc_read = pp.doc_read,
                       !.encode_calls = pp.encode_calls,
                       !.cache_written = pp.cache_written,
                       !.result = pp.ret,
                       !.ok = pp.ret # Missing,
                       !.caching = cache_embeddings]
        /\ UNCHANGED <<current_character, current_persona_chunks,
                       current_persona_embeddings, character_config, embedding_model,
                       reranker_model, cache_embeddings, persona_files, encode_runs,
                       first_result, ct_vars, rm_vars, aux_vars>>

NextStems == \E persona_file \in StemFiles : ProcessPersona(persona_file)

SpecStems == InitStems /\ [][NextStems]_vars

(***************************************************************************)
(* SpecSession: any sequence of load_character, generate_story_and_image   *)
(* and cleanup on one agent. Two of the characters have persona documents  *)
(* of the same file name in different directories. The cache is empty at   *)
(* first and no document changes.                                          *)
(***************************************************************************)
SessionCharacters == {"himu", "twin", "lost"}

SessionPaths == ConfiguredPaths \cup {"personas/old/himu.txt"}

\* the documents that exist, each with a text of its own
SessionTexts ==
    [path \in {"personas/himu.txt", "personas/old/himu.txt"} |->
        IF path = "personas/himu.txt" THEN "a" ELSE "b"]

InitSession ==
    /\ ChunkIdle
    /\ RetrIdle
    /\ AuxIdle
    /\ current_character = Missing
    /\ current_persona_chunks = <<>>
    /\ current_persona_embeddings = <<>>
    /\ character_config = EmptyConfig
    /\ embedding_model = TRUE
    /\ reranker_model = FALSE
    /\ cache_embeddings \in BOOLEAN
    /\ persona_files = [path \in DOMAIN SessionTexts |-> Some(SessionTexts[path])]
    /\ cache_files = [cache_path \in {get_cache_path(path) : path \in SessionPaths} |->
                         Missing]
    /\ encode_runs = [path \in SessionPaths |-> 0]
    /\ first_result = [path \in SessionPaths |-> Missing]
    /\ last = NoOp

NextSession ==
    \/ \E character_name \in SessionCharacters : LoadCharacter(character_name)
    \/ \E story_prompt \in Prompts : GenerateStoryAndImage(story_prompt)
    \/ \E persona_cleanup_raises, llm_cleanup_raises \in BOOLEAN :
           Cleanup(persona_cleanup_raises, llm_cleanup_raises)

SpecSession == InitSession /\ [][NextSession]_vars

(***************************************************************************)
(* SpecListing: the ConfigLoader on a character configuration directory.   *)
(* get_available_characters lists the characters of the directory and      *)
(* load_character_config looks one name up in it.  The files are readable  *)
(* YAML and the directory exists.                                          *)
(***************************************************************************)
MaxConfigFiles == 3  \* most files in the configuration directory

\* the file names that may be in the directory
ConfigFileNames ==
    {"himu.yaml", "himu_config.yaml", "himu__config.yaml", "himu_.yaml",
     "misir_config.yaml", "himu.yaml.yaml", "notes.txt"}

\* names load_character_config is asked for besides the listed ones
AskedNames == {"himu", "ghost"}

\* str.endswith(suffix)
EndsWith(str, suffix) ==
    Len(suffix) <= Len(str) /\ SubSeq(str, Len(str) - Len(suffix) + 1, Len(str)) = suffix

\* str.replace(old, ''): every occurrence of old, found from the left, is removed
RECURSIVE PyReplace(_, _)
PyReplace(str, old) ==
    IF Len(str) < Len(old) THEN str
    ELSE IF SubSeq(str, 1, Len(old)) = old
       THEN PyReplace(SubSeq(str, Len(old) + 1, Len(str)), old)
    ELSE SubSeq(str, 1, 1) \o PyReplace(SubSeq(str, 2, Len(str)), old)

\* line 113
CharacterNameOf(file) ==
    PyReplace(PyReplace(PyReplace(file, "_config.yaml"), "__config.yaml"), ".yaml")

\* lines 110-115: the loop over os.listdir, characters being the list built so far
RECURSIVE ListCharacters(_, _)
ListCharacters(listdir, characters) ==
    IF listdir = <<>> THEN characters
    ELSE LET file == Head(listdir)
             character_name == CharacterNameOf(file)
             unlisted == \A i \in 1..Len(characters) : characters[i] # character_name
         IN  ListCharacters(Tail(listdir),
                            IF EndsWith(file, ".yaml") /\ unlisted
                               THEN Append(characters, character_name)
                               ELSE characters)

get_available_characters(listdir) == ListCharacters(listdir, <<>>)

\* lines 50-58 on a directory holding files: the first possible file name that
\* exists, or Missing
ConfigFileFound(files, character_name) ==
    LET names == PossibleFilenames(character_name)
        found == {i \in 1..Len(names) : names[i] \in files}
    IN  IF found = {} THEN Missing
        ELSE Some(names[CHOOSE i \in found : \A j \in found : i <= j])

\* os.listdir gives the files in an arbitrary order
RECURSIVE Orderings(_)
Orderings(files) ==
    IF files = {} THEN {<<>>}
    ELSE UNION {{<<file>> \o rest : rest \in Orderings(files \ {file})} : file \in files}

InitListing ==
    /\ ChunkIdle
    /\ RetrIdle
    /\ AgentIdle
    /\ FormatIdle
    /\ io_faults = {NoFault}
    /\ ThreadsIdle
    /\ ApiIdle
    /\ configured_chunking = Missing
    /\ config_dir \in {files \in SUBSET ConfigFileNames : Cardinality(files) <= MaxConfigFiles}
    /\ listed = NoListing

GetAvailableCharacters(listdir) ==
    /\ listed' = [NoListing EXCEPT !.op = "get_available_characters",
                                   !.listdir = listdir,
                                   !.characters = get_available_characters(listdir)]
    /\ UNCHANGED <<config_dir, fc_vars, io_faults, th_vars, api_vars, configured_chunking,
                   ct_vars, rm_vars, ag_vars>>

\* the name is one of the last list, or one of AskedNames
LoadCharacterConfig(character_name) ==
    /\ listed' = [listed EXCEPT !.op = "load_character_config",
                                !.character_name = Some(character_name),
                                !.config_file = ConfigFileFound(config_dir, character_name)]
    /\ UNCHANGED <<config_dir, fc_vars, io_faults, th_vars, api_vars, configured_chunking,
                   ct_vars, rm_vars, ag_vars>>

NextListing ==
    \/ \E listdir \in Orderings(config_dir) : GetAvailableCharacters(listdir)
    \/ \E character_name \in AskedNames \cup {listed.characters[i] : i \in 1..Len(listed.characters)} :
           LoadCharacterConfig(character_name)

SpecListing == InitListing /\ [][NextListing]_vars

(***************************************************************************)
(* Chunker properties.                                                     *)
(***************************************************************************)
Last(seq) == seq[Len(seq)]

IsPrefix(p, s) == Len(p) <= Len(s) /\ SubSeq(s, 1, Len(p)) = p

IsSuffix(p, s) == Len(p) <= Len(s) /\ SubSeq(s, Len(s) - Len(p) + 1, Len(s)) = p

\* the first chunk followed by every later chunk minus its first `overlap` characters
RECURSIVE Reconstruct(_, _)
Reconstruct(chunks, overlap) ==
    IF Len(chunks) = 0 THEN ""
    ELSE IF Len(chunks) = 1 THEN chunks[1]
    ELSE LET c == Last(chunks)
         IN  Reconstruct(SubSeq(chunks, 1, Len(chunks) - 1), overlap)
                 \o SubSeq(c, overlap + 1, Len(c))

ChunkReturned == ct_pc = "done"

\* C5: for a non-empty text and chunk_size > overlap >= 0, the chunks returned by
\* chunk_text cover the text without gaps: the first chunk is a prefix of the text,
\* the last chunk is a suffix of it, and the first chunk followed by every later
\* chunk minus its first `overlap` characters is the text itself.
C5_Coverage ==
    (ChunkReturned /\ ct_text # "" /\ ValidChunkParams(ct_chunk_size, ct_overlap)) =>
        /\ Len(ct_chunks) >= 1
        /\ IsPrefix(ct_chunks[1], ct_text)
        /\ IsSuffix(Last(ct_chunks), ct_text)
        /\ Reconstruct(ct_chunks, ct_overlap) = ct_text

\* a call with a positive overlap that returned three or more chunks, the last one short
C5_Witness ==
    /\ ChunkReturned
    /\ ValidChunkParams(ct_chunk_size, ct_overlap)
    /\ ct_overlap > 0
    /\ Len(ct_chunks) >= 3
    /\ Len(Last(ct_chunks)) < ct_chunk_size

\* C6: a call whose parameters violate chunk_size > overlap >= 0, chunk_size > 0 fails
\* fast: it never gets to emit a chunk, neither inside the loop nor in a returned list.
C6_FailsFast ==
    ~ValidChunkParams(ct_chunk_size, ct_overlap) => Len(ct_chunks) = 0

\* a call with a non-empty text and chunk_size > overlap >= 0
ValidCall == ct_text # "" /\ ValidChunkParams(ct_chunk_size, ct_overlap)

\* offset of the chunk after k steps
ChunkOffset(k) == k * (ct_chunk_size - ct_overlap)

\* what a returned list must be: chunk k+1 is text[offset(k) : offset(k)+size], the
\* last chunk is the first to reach the end of the text, every chunk but the last has
\* the full size, and every chunk ends after its predecessor
ExactChunks ==
    LET n == Len(ct_chunks)
        L == Len(ct_text)
    IN  /\ n >= 1
        /\ \A k \in 0..(n - 1) :
               ct_chunks[k + 1]
                   = PySlice(ct_text, ChunkOffset(k), ChunkOffset(k) + ct_chunk_size)
        /\ ChunkOffset(n - 1) + ct_chunk_size >= L
        /\ \A k \in 0..(n - 2) :
               /\ ChunkOffset(k) + ct_chunk_size < L
               /\ Len(ct_chunks[k + 1]) = ct_chunk_size
        /\ \A k \in 1..(n - 1) :
               Min(ChunkOffset(k) + ct_chunk_size, L) > ChunkOffset(k - 1) + ct_chunk_size

\* C23: for chunk_size > overlap >= 0 and a non-empty text, chunk_text terminates and
\* returns exactly the chunks text[k*(size-overlap) : k*(size-overlap)+size] up to the
\* first one that reaches the end of the text; a text of 1500 characters with size
\* 700 and overlap 120 gives [0,700), [580,1280), [1160,1500).
C23_ExactChunks ==
    /\ [](ChunkReturned /\ ValidCall => ExactChunks)
    /\ [](ChunkReturned /\ ct_text = Text1500 =>
             ct_chunks = <<PySlice(Text1500, 0, 700), PySlice(Text1500, 580, 1280),
                           PySlice(Text1500, 1160, 1500)>>)
    /\ ((ct_pc = "call" /\ ValidCall) ~> ChunkReturned)

\* the call on the text of 1500 characters returned three chunks, the last of 340
C23_Witness ==
    /\ ChunkReturned
    /\ Len(ct_text) = 1500
    /\ ct_chunk_size = 700
    /\ ct_overlap = 120
    /\ Len(ct_chunks) = 3
    /\ Len(ct_chunks[3]) = 340

(***************************************************************************)
(* Retrieval properties.                                                   *)
(***************************************************************************)
Range(seq) == {seq[i] : i \in 1..Len(seq)}

RetrReturned == rm_pc = "returned"

RetrParams == get_retrieval_params(rm_params_config)

\* the position a chunk text has in the document
OrigIndex(text) == CHOOSE i \in 1..Len(ChunkTexts) : ChunkTexts[i] = text

\* x ranks before y in coarse order: a higher coarse similarity, or the same
\* similarity and an earlier place in the document
CoarseBefore(x, y) ==
    \/ ScoreGT(x.initial_score, y.initial_score)
    \/ /\ ~ScoreGT(y.initial_score, x.initial_score)
       /\ OrigIndex(x.text) < OrigIndex(y.text)

\* a returned item without its rerank score
Coarse(item) == [text |-> item.text, initial_score |-> item.initial_score]

\* result holds the first k candidates of the coarse order of `candidates`
IsCoarseTop(result, candidates, k) ==
    /\ Len(result) = Min(k, Len(candidates))
    /\ \A i \in 1..Len(result) : Coarse(result[i]) \in {Coarse(c) : c \in Range(candidates)}
    /\ \A i, j \in 1..Len(result) : i < j => CoarseBefore(result[i], result[j])
    /\ \A c \in Range(candidates) :
           Coarse(c) \notin {Coarse(r) : r \in Range(result)} =>
               \A i \in 1..Len(result) : CoarseBefore(result[i], c)

\* C1: on every return path of find_relevant_chunks, with or without a reranker, the
\* returned list is no longer than the facet's final_retrieval, and final_retrieval is
\* at most initial_retrieval.
C1_TruncationInvariant ==
    RetrReturned =>
        /\ Len(rm_result) <= RetrParams.final_retrieval
        /\ RetrParams.final_retrieval <= RetrParams.initial_retrieval

\* the rerank stage of the call failed: predict raised, or returned too few scores
RerankFailed ==
    /\ rm_predict.called
    /\ \/ rm_predict.raises
       \/ Len(rm_predict.scores)
              < Min(Len(rm_initial_scores), RetrParams.initial_retrieval)

\* C9: when a reranker is configured and the rerank stage fails, the call still
\* returns, and what it returns is the first final_retrieval candidates in coarse
\* order (descending coarse similarity, ties in original chunk order).
C9_Degradation ==
    (RetrReturned /\ rm_reranker_model /\ RerankFailed) =>
        IsCoarseTop(rm_result, rm_initial_scores,
                    Min(RetrParams.initial_retrieval, RetrParams.final_retrieval))

\* predict returned too few scores for three candidates, two of them with equal coarse
\* similarity; the cut to final_retrieval dropped one
C9_Witness ==
    /\ RetrReturned
    /\ rm_reranker_model
    /\ RerankFailed
    /\ ~rm_predict.raises
    /\ Len(rm_initial_scores) = 3
    /\ Len(rm_result) = 2
    /\ rm_result[1].rerank_score # Missing
    /\ \E i, j \in 1..3 : i < j /\ rm_initial_scores[i].initial_score
                                   = rm_initial_scores[j].initial_score
    /\ rm_result[1].text # rm_initial_scores[1].text

\* thresholds, in hundredths, to compare the configured one with
ThresholdSamples == {0 - 50, 0, 20, 50, 71, 80, 90}

CoarseCandidates(threshold) ==
    InitialScores(rm_query_embedding, rm_doc_chunk_embeddings, rm_doc_chunks_text,
                  threshold)

\* C10: for the query embedding and the chunk set of the call, a higher threshold
\* never lets more chunks through the coarse filter: against the candidates the call
\* found under its own threshold, every higher threshold yields a subset and every
\* lower one a superset.
C10_ThresholdMonotone ==
    (RetrReturned /\ ~EmptyInput(rm_query_embedding, rm_doc_chunk_embeddings,
                                 rm_doc_chunks_text)) =>
        \A t \in ThresholdSamples :
            /\ t >= RetrParams.similarity_threshold =>
                   /\ Range(CoarseCandidates(t)) \subseteq Range(rm_initial_scores)
                   /\ Len(CoarseCandidates(t)) <= Len(rm_initial_scores)
            /\ t <= RetrParams.similarity_threshold =>
                   /\ Range(rm_initial_scores) \subseteq Range(CoarseCandidates(t))
                   /\ Len(rm_initial_scores) <= Len(CoarseCandidates(t))

\* a call that found three candidates, of which a higher threshold keeps one or two
C10_Witness ==
    /\ RetrReturned
    /\ Len(rm_initial_scores) = 3
    /\ \E t \in ThresholdSamples :
           /\ t > RetrParams.similarity_threshold
           /\ Len(CoarseCandidates(t)) \in {1, 2}

(***************************************************************************)
(* Agent properties.                                                       *)
(***************************************************************************)
LoadReturned == last.op = "load_character"

GenerateReturned == last.op = "generate_story_and_image"

\* C2: a load_character call that fails (no configuration file under any of the
\* recognized names, no persona_file configured, or no result from process_persona)
\* returns False and leaves current_character, current_persona_chunks and
\* current_persona_embeddings as they were before the call.
C2_FailedLoadKeepsSession ==
    LoadReturned =>
        /\ (~last.config_found \/ last.persona_file = Missing \/ last.result = Missing)
               => ~last.ok
        /\ ~last.ok => CurrentSession = last.before

\* process_persona gave no result for a character while another persona was loaded
C2_Witness ==
    /\ LoadReturned
    /\ ~last.ok
    /\ last.processed
    /\ last.before # Unloaded
    /\ last.before.current_character # Some(last.character)

\* C3: generate_story_and_image called while no persona is loaded returns the
\* 'Error: No character loaded' outcome with model name 'unknown' and zero token
\* counts, calls neither the embedding model nor the retrieval module nor the
\* generator, and leaves the session as it was.
C3_NoCharacterLoaded ==
    (GenerateReturned /\ (\/ last.before.current_character = Missing
                          \/ Len(last.before.chunks) = 0
                          \/ Len(last.before.embeddings) = 0)) =>
        /\ last.outcome = Outcome("Error: No character loaded",
                                  "Error: No character loaded", "unknown", 0, 0)
        /\ last.encode_calls = <<>>
        /\ last.retrieval_calls = <<>>
        /\ last.llm_calls = <<>>
        /\ CurrentSession = last.before

\* generate was called on the unloaded agent, with an embedding model at hand
C3_Witness ==
    /\ GenerateReturned
    /\ last.before = Unloaded
    /\ embedding_model

\* C4: a load_character(B) call that returns True makes B the current character and
\* the pair process_persona returned for the persona file of B's configuration the
\* current chunks and embeddings, whatever was loaded before; every other call
\* leaves the session alone, so the session is that of the last successful load.
C4_LoadReplacesSession ==
    /\ (LoadReturned /\ last.ok) =>
           /\ last.result # Missing
           /\ last.persona_file
                  = get_config_persona_file(Value(load_character_config(last.character)))
           /\ current_character = Some(last.character)
           /\ current_persona_chunks = Value(last.result)[1]
           /\ current_persona_embeddings = Value(last.result)[2]
    /\ (last.op # "none" /\ ~(LoadReturned /\ last.ok)) => CurrentSession = last.before

\* a load succeeded while another character with other chunks was loaded
C4_Witness ==
    /\ LoadReturned
    /\ last.ok
    /\ last.before.current_character \notin {Missing, Some(last.character)}
    /\ Len(last.before.chunks) > Len(current_persona_chunks)

CacheMissProcessed ==
    /\ LoadReturned
    /\ last.processed
    /\ last.cached = Missing
    /\ last.path \in DOMAIN persona_files
    /\ persona_files[last.path] \notin {Missing, Some("")}
    /\ embedding_model

\* C8: on a cache miss with a non-empty document and an embedding model,
\* process_persona runs the embedding model exactly once, on the list of all chunks
\* of the document; with app.cache_embeddings enabled the cache holds the returned
\* pair when the call returns, with it disabled the cache holds no entry.
C8_CacheMiss ==
    CacheMissProcessed =>
        /\ last.result # Missing
        /\ Value(last.result)[1] = chunk_text(Value(persona_files[last.path]),
                                              DefaultChunkSize, DefaultOverlap)
        /\ last.encode_calls = <<Value(last.result)[1]>>
        /\ last.caching =>
               load_from_cache(cache_files, get_cache_path(last.path), NoFault)
                   = last.result
        /\ ~last.caching => cache_files[get_cache_path(last.path)] = Missing

\* a miss on the document of two chunks, with caching enabled
C8_Witness ==
    /\ CacheMissProcessed
    /\ last.caching
    /\ Len(Value(last.result)[1]) = 2
    /\ Len(last.encode_calls) = 1
    /\ Len(last.encode_calls[1]) = 2

\* no chunk of the session meets the threshold of any facet for the prompt of the call
NothingRelevant ==
    \A query_type \in Facets :
        InitialScores(encode(<<last.prompt>>)[1], last.before.embeddings, last.before.chunks,
                      get_retrieval_params(
                          get_config_retrieval_params(character_config, query_type))
                          .similarity_threshold) = <<>>

\* C12: a query on an agent with no persona loaded (never loaded, or only failed
\* loads so far) gets the no-character error and the generator is not called; a query
\* on a loaded persona for which no chunk meets a threshold does call the generator,
\* with the empty string as context, and its outcome is not the no-character error.
C12_NoSilentEmptyContext ==
    GenerateReturned =>
        /\ NoCharacterLoaded(last.before) =>
               /\ last.outcome = NoCharacterError
               /\ last.llm_calls = <<>>
        /\ last.llm_calls # <<>> => ~NoCharacterLoaded(last.before)
        /\ (~NoCharacterLoaded(last.before) /\ embedding_model /\ NothingRelevant) =>
               /\ Len(last.llm_calls) = 1
               /\ last.llm_calls[1].persona_context = ""
               /\ last.outcome # NoCharacterError

\* a query on the agent that is still unloaded after load_character("lost") found the
\* configuration of lost but no persona document
C12_Witness ==
    /\ GenerateReturned
    /\ last.before = Unloaded
    /\ character_config.persona_file = Some("lost.txt")
    /\ embedding_model
    /\ last.outcome = NoCharacterError

\* a query on a loaded persona that found nothing relevant and called the generator
C12_LoadedNothingRelevant ==
    /\ GenerateReturned
    /\ ~NoCharacterLoaded(last.before)
    /\ embedding_model
    /\ NothingRelevant
    /\ last.outcome = Generated

\* the pair a rebuild from the source document yields
FreshResult(path) ==
    LET chunks == chunk_text(Value(persona_files[path]), DefaultChunkSize, DefaultOverlap)
    IN  Some(<<chunks, encode(chunks)>>)

\* the load met a failure of cache I/O: reading (directory, file, content) or writing
CacheReadFailed == last.fault.mkdir_raises \/ last.fault.read_raises \/ last.malformed

CacheWriteFailed == last.caching /\ last.cached = Missing /\ last.fault.write # "ok"

\* the load had a non-empty source document and an embedding model to rebuild from
Rebuildable ==
    /\ LoadReturned
    /\ last.processed
    /\ last.path \in DOMAIN persona_files
    /\ persona_files[last.path] \notin {Missing, Some("")}
    /\ embedding_model

\* C13: a failure of cache I/O does not fail a load. When the cache cannot be read
\* (directory missing or not creatable, file unreadable or malformed) the load goes on
\* as on a cache miss and returns the pair rebuilt from the source document; when the
\* cache cannot be written the load still returns the pair it computed.
C13_CacheFaultsNonFatal ==
    (Rebuildable /\ (CacheReadFailed \/ CacheWriteFailed)) =>
        /\ last.ok
        /\ last.result = FreshResult(last.path)

\* the same for failures of reading and writing the cache file alone
C13_FileFaultsNonFatal ==
    (Rebuildable /\ ~last.fault.mkdir_raises /\ (CacheReadFailed \/ CacheWriteFailed)) =>
        /\ last.ok
        /\ last.result = FreshResult(last.path)

\* a load that rebuilt the persona past a malformed cache file and failed to write
C13_FileFaultsWitness ==
    /\ Rebuildable
    /\ last.malformed
    /\ last.caching
    /\ last.fault.write = "partial"
    /\ last.ok

\* the load processed a persona file whose document is there and empty
EmptyDocumentLoad ==
    /\ LoadReturned
    /\ last.processed
    /\ last.path \in DOMAIN persona_files
    /\ persona_files[last.path] = Some("")

\* what the claim says of such a load
EmptyDocumentFailure ==
    /\ chunk_text("", DefaultChunkSize, DefaultOverlap) = <<>>
    /\ ~last.ok
    /\ last.result = Missing
    /\ last.encode_calls = <<>>
    /\ ~last.cache_written
    /\ CurrentSession = last.before

\* C14 as stated: loading a persona whose document is empty fails: no chunks, no
\* result from process_persona, no run of the embedding model, no cache entry
\* written, load_character returns False and no persona is newly loaded.
C14_EmptyDocumentFails == EmptyDocumentLoad => EmptyDocumentFailure

\* C14, amended: the same for a load that finds no cache entry for the persona file;
\* such a load reads the document and leaves the cache without an entry for it.
C14_EmptyDocumentFailsOnMiss ==
    (EmptyDocumentLoad /\ last.cached = Missing) =>
        /\ EmptyDocumentFailure
        /\ last.doc_read
        /\ cache_files[get_cache_path(last.path)] = Missing

\* an empty document, no cache entry, caching enabled, an embedding model at hand
\* and another persona loaded
C14_Witness ==
    /\ EmptyDocumentLoad
    /\ last.cached = Missing
    /\ embedding_model
    /\ cache_embeddings
    /\ last.before # Unloaded
    /\ last.before.current_character # Some(last.character)

(***************************************************************************)
(* Properties of the two threads.                                          *)
(***************************************************************************)
\* the session a completed load of the character leaves, under the files of SpecRace
SessionOf(character_name) ==
    load_character(character_name, Unloaded, EmptyConfig, persona_files, cache_files,
                   embedding_model, cache_embeddings, NoFault).session

\* the three values are those of one persona
OnePersona(session) ==
    \E character_name \in RaceCharacters : session = SessionOf(character_name)

\* the session fields the generate call used: the embeddings and chunk texts it
\* handed to the retrieval module, the character name it handed to the generator
UsedByGenerate == Session(g_local.character, g_local.chunks, g_local.embeddings)

GenerateCalledLlm == g_pc = "done" /\ g_local.outcome = Generated

\* C15: a generate call can use session data of two personas, and only a load
\* interleaved with it does that: whenever no load is in progress the session holds
\* one persona (or none), and a generate call during which no load was assigning the
\* session uses the values of one persona.
C15_MixOnlyByInterleaving ==
    /\ l_pc = "idle" => (CurrentSession = Unloaded \/ OnePersona(CurrentSession))
    /\ (GenerateCalledLlm /\ ~g_raced) => OnePersona(UsedByGenerate)

\* a generate call that handed the embeddings of one persona and the chunk texts of
\* another to the retrieval module, and called the generator
C15_Witness ==
    /\ GenerateCalledLlm
    /\ g_raced
    /\ \E a, b \in RaceCharacters :
           /\ a # b
           /\ SessionOf(a) # Unloaded
           /\ SessionOf(b) # Unloaded
           /\ g_local.embeddings = SessionOf(a).embeddings
           /\ g_local.chunks = SessionOf(b).chunks
           /\ g_local.chunks # SessionOf(a).chunks

(***************************************************************************)
(* Properties of the HTTP API.                                             *)
(***************************************************************************)
\* the last request was a /generate that was answered from a persona
AnsweredFromPersona == api_last.endpoint = "/generate" /\ api_last.answered_from # Missing

\* C16: each user has a session of their own: a /generate request of one user is
\* never answered from a persona that a request of another user loaded.
C16_SessionPerUser ==
    AnsweredFromPersona => api_last.owner = Some(api_last.user)

\* what does hold: a /generate request that names a character the agent can load is
\* answered from that character, loaded by the request itself
C16_NamedCharacterIsOwn ==
    (/\ AnsweredFromPersona
     /\ api_last.character # Missing
     /\ api_last.answered_from = api_last.character)
        => api_last.owner = Some(api_last.user)

\* a /generate request of one user answered from the persona another user loaded
C16_AnsweredFromOtherUser ==
    /\ AnsweredFromPersona
    /\ api_last.owner # Missing
    /\ api_last.owner # Some(api_last.user)

(***************************************************************************)
(* Properties of cleanup.                                                  *)
(***************************************************************************)
CleanupReturned == last.op = "cleanup"

\* C17: cleanup never raises, and after it the agent is unloaded (no character, no
\* chunks, no embeddings), whatever the session was before and also when the cleanup
\* of a component raised.
C17_CleanupUnloads ==
    CleanupReturned => (last.ok /\ CurrentSession = Unloaded)

\* what does hold: cleanup never raises, unloads the agent when the cleanup of every
\* component returned, and leaves the session as it was otherwise
C17_CleanupUnloadsIfComponentsReturn ==
    CleanupReturned =>
        /\ last.ok
        /\ CurrentSession = IF last.component_raised THEN last.before ELSE Unloaded

\* a loaded agent, cleaned up with every component returning
C17_UnloadedWitness ==
    CleanupReturned /\ ~last.component_raised /\ last.before # Unloaded

\* a loaded agent still loaded after cleanup
C17_StillLoaded ==
    CleanupReturned /\ last.component_raised /\ CurrentSession # Unloaded

(***************************************************************************)
(* Properties of the chunking of a newly processed persona.                *)
(***************************************************************************)
\* every chunk but the last has the size, and consecutive chunks share `overlap`
\* characters
ChunkedWith(chunks, chunk_size, overlap) ==
    \A i \in 1..(Len(chunks) - 1) :
        /\ Len(chunks[i]) = chunk_size
        /\ IsPrefix(PySlice(chunks[i], chunk_size - overlap, chunk_size), chunks[i + 1])

NewlyProcessed == CacheMissProcessed /\ last.ok

\* C18: on a cache miss process_persona chunks the document with the chunk size and
\* the overlap of the configuration: every chunk but the last has the configured
\* size, and consecutive chunks overlap by the configured overlap.
C18_ConfiguredChunking ==
    (NewlyProcessed /\ configured_chunking # Missing) =>
        ChunkedWith(Value(last.result)[1], Value(configured_chunking).chunk_size,
                    Value(configured_chunking).overlap)

\* what does hold: the chunks are those of chunk_text's own defaults, 700 and 120,
\* whatever the configuration gives
C18_DefaultChunking ==
    NewlyProcessed =>
        /\ Value(last.result)[1]
               = chunk_text(Value(persona_files[last.path]), DefaultChunkSize,
                            DefaultOverlap)
        /\ ChunkedWith(Value(last.result)[1], DefaultChunkSize, DefaultOverlap)

\* a document of more than one chunk, newly processed under a configuration that
\* gives another chunk size than 700
C18_OtherSizeConfigured ==
    /\ NewlyProcessed
    /\ Len(Value(last.result)[1]) > 1
    /\ configured_chunking # Missing
    /\ Value(configured_chunking).chunk_size # DefaultChunkSize

(***************************************************************************)
(* Properties of the coarse filter.                                        *)
(***************************************************************************)
\* the chunk has an embedding, and not an all-zero one
HasEmbedding(i) ==
    /\ rm_doc_chunk_embeddings[i] # None
    /\ AnyNonZero(rm_doc_chunk_embeddings[i].v)

\* the similarity of the chunk with the query cannot be computed
SimilarityFails(i) ==
    Len(rm_doc_chunk_embeddings[i].v) # Len(rm_query_embedding.v)

ChunkSimilarity(i) == cosine_similarity(rm_query_embedding.v, rm_doc_chunk_embeddings[i].v)

\* the chunk is among the coarse candidates, with its similarity as score
IsCandidate(i) ==
    \E k \in 1..Len(rm_initial_scores) :
        /\ rm_initial_scores[k].text = rm_doc_chunks_text[i]
        /\ rm_initial_scores[k].initial_score = ChunkSimilarity(i)

\* C19: a chunk is a coarse candidate exactly if it has an embedding that is not
\* all-zero and its cosine similarity with the query is at least the facet's threshold
\* (equal is enough); a chunk without embedding, with an all-zero one, or whose
\* similarity cannot be computed is skipped and the chunks after it are still looked
\* at. Each candidate is there once.
C19_CoarseFilter ==
    (RetrReturned /\ ~EmptyInput(rm_query_embedding, rm_doc_chunk_embeddings,
                                 rm_doc_chunks_text)) =>
        /\ \A i \in 1..Len(rm_doc_chunks_text) :
               IsCandidate(i) <=>
                   /\ HasEmbedding(i)
                   /\ ~SimilarityFails(i)
                   /\ ScoreGE(ChunkSimilarity(i),
                              Hundredths(RetrParams.similarity_threshold))
        /\ Len(rm_initial_scores)
               = Cardinality({i \in 1..Len(rm_doc_chunks_text) : IsCandidate(i)})

\* a chunk whose similarity cannot be computed, a later chunk that is a candidate
\* with a similarity equal to the threshold, and a chunk without a usable embedding
C19_Witness ==
    /\ RetrReturned
    /\ \E i, j, k \in 1..Len(rm_doc_chunks_text) :
           /\ i < j
           /\ HasEmbedding(i) /\ SimilarityFails(i) /\ ~IsCandidate(i)
           /\ IsCandidate(j)
           /\ ScoreGE(Hundredths(RetrParams.similarity_threshold), ChunkSimilarity(j))
           /\ ~HasEmbedding(k)

\* the candidates that rank before `item` in coarse order
RankedBefore(item) ==
    {k \in 1..Len(rm_initial_scores) : CoarseBefore(rm_initial_scores[k], item)}

\* C20: the coarse candidates are ordered by coarse similarity, highest first,
\* candidates of equal similarity in their original chunk order, and the first
\* initial_retrieval of them are retained. Without a reranker call the returned list
\* is exactly that list; in every case a returned chunk is one of these first
\* initial_retrieval. The order is total, so the inputs and the configuration fix
\* the output.
C20_RankAndTruncate ==
    RetrReturned =>
        /\ ~rm_predict.called =>
               IsCoarseTop(rm_result, rm_initial_scores, RetrParams.initial_retrieval)
        /\ \A i \in 1..Len(rm_result) :
               Cardinality(RankedBefore(rm_result[i])) < RetrParams.initial_retrieval
        /\ \A i, j \in 1..Len(rm_initial_scores) :
               i # j => (CoarseBefore(rm_initial_scores[i], rm_initial_scores[j])
                         \/ CoarseBefore(rm_initial_scores[j], rm_initial_scores[i]))

\* three candidates, the last two of equal similarity and above the first; the two
\* retained are the second and the third in that order, the first was cut
C20_Witness ==
    /\ RetrReturned
    /\ ~rm_predict.called
    /\ Len(rm_initial_scores) = 3
    /\ Len(rm_result) = 2
    /\ rm_initial_scores[2].initial_score = rm_initial_scores[3].initial_score
    /\ ScoreGT(rm_initial_scores[2].initial_score, rm_initial_scores[1].initial_score)
    /\ Coarse(rm_result[1]) = Coarse(rm_initial_scores[2])
    /\ Coarse(rm_result[2]) = Coarse(rm_initial_scores[3])

(***************************************************************************)
(* Properties of the rerank stage.                                         *)
(***************************************************************************)
\* the coarse candidate that holds the chunk text
CandidateOf(text) == CHOOSE c \in Range(rm_initial_scores) : c.text = text

\* the candidates a batch of sentence pairs names, in the order of the batch
BatchCandidates(pairs) == [i \in 1..Len(pairs) |-> CandidateOf(pairs[i][2])]

\* the coarse stage retained at least one candidate
SomeRetained == Len(rm_initial_scores) > 0 /\ RetrParams.initial_retrieval > 0

\* C21: the reranker is not invoked when no reranker model is configured or the
\* coarse stage retained no candidate; otherwise it is invoked exactly once in the
\* call, with one batch that holds one (query type, chunk text) pair per retained
\* coarse candidate, in coarse-rank order.
C21_RerankerInvocation ==
    RetrReturned =>
        IF ~rm_reranker_model \/ ~SomeRetained
           THEN rm_predict_calls = <<>> /\ ~rm_predict.called
           ELSE /\ Len(rm_predict_calls) = 1
                /\ rm_predict.called
                /\ \A i \in 1..Len(rm_predict_calls[1]) :
                       /\ Len(rm_predict_calls[1][i]) = 2
                       /\ rm_predict_calls[1][i][1] = rm_query_type
                       /\ rm_predict_calls[1][i][2] \in
                              {c.text : c \in Range(rm_initial_scores)}
                /\ IsCoarseTop(BatchCandidates(rm_predict_calls[1]), rm_initial_scores,
                               RetrParams.initial_retrieval)

\* a call for the style facet with a reranker: three candidates, the second ranks
\* first, and the batch holds the two retained
C21_Witness ==
    /\ RetrReturned
    /\ rm_reranker_model
    /\ rm_query_type = "style"
    /\ Len(rm_initial_scores) = 3
    /\ Len(rm_predict_calls) = 1
    /\ Len(rm_predict_calls[1]) = 2
    /\ rm_predict_calls[1][1] = <<"style", rm_initial_scores[2].text>>
    /\ rm_predict_calls[1][2] = <<"style", rm_initial_scores[1].text>>

\* predict returned a score for every pair it was handed
RerankSucceeded == rm_predict.called /\ ~RerankFailed

\* the retained coarse candidates in coarse-rank order, as handed to the reranker
Retained == BatchCandidates(rm_predict_calls[1])

\* the place of a returned item among the retained candidates
RetainedIndex(item) == CHOOSE k \in 1..Len(Retained) : Retained[k].text = item.text

\* x ranks before y after reranking: a higher rerank score, or the same rerank score
\* and an earlier place in coarse rank
FineBefore(x, y) ==
    \/ Value(x.rerank_score) > Value(y.rerank_score)
    \/ /\ Value(x.rerank_score) = Value(y.rerank_score)
       /\ RetainedIndex(x) < RetainedIndex(y)

\* C22: when reranking succeeds the result is the retained coarse candidates sorted
\* by rerank score, highest first, equal rerank scores in coarse-rank order, cut to
\* the first final_retrieval; every returned item has its coarse score and the rerank
\* score predict gave for its pair.
C22_RerankOrder ==
    (RetrReturned /\ RerankSucceeded) =>
        /\ Len(rm_result) = Min(RetrParams.final_retrieval, Len(Retained))
        /\ \A i \in 1..Len(rm_result) :
               /\ rm_result[i].text \in {c.text : c \in Range(Retained)}
               /\ rm_result[i].initial_score = CandidateOf(rm_result[i].text).initial_score
               /\ rm_result[i].rerank_score
                      = Some(rm_predict.scores[RetainedIndex(rm_result[i])])
        /\ \A i, j \in 1..Len(rm_result) : i < j => FineBefore(rm_result[i], rm_result[j])
        /\ \A k \in 1..Len(Retained) :
               Retained[k].text \notin {r.text : r \in Range(rm_result)} =>
                   \A i \in 1..Len(rm_result) :
                       \/ Value(rm_result[i].rerank_score) > rm_predict.scores[k]
                       \/ /\ Value(rm_result[i].rerank_score) = rm_predict.scores[k]
                          /\ RetainedIndex(rm_result[i]) < k

\* three retained candidates, the second with the lowest rerank score and the other
\* two equal: the first and the third are returned in coarse-rank order
C22_Witness ==
    /\ RetrReturned
    /\ RerankSucceeded
    /\ Len(Retained) = 3
    /\ Len(rm_result) = 2
    /\ rm_result[1].text = Retained[1].text
    /\ rm_result[2].text = Retained[3].text
    /\ rm_result[1].rerank_score = rm_result[2].rerank_score
    /\ Value(rm_result[1].rerank_score) > rm_predict.scores[2]

(***************************************************************************)
(* Properties of an agent without embedding model.                         *)
(***************************************************************************)
QueryEmbeddingError == ErrorOutcome("Error: Failed to create query embedding")

\* process_persona ran without embedding model and found no cache entry
LoadMissWithoutModel ==
    /\ LoadReturned
    /\ last.processed
    /\ last.cached = Missing
    /\ ~embedding_model

\* generate_story_and_image ran on a loaded session without embedding model
GenerateWithoutModel ==
    /\ GenerateReturned
    /\ ~NoCharacterLoaded(last.before)
    /\ ~embedding_model

\* the load fails, no cache entry is written, nothing is embedded
MissWithoutModelFails ==
    LoadMissWithoutModel =>
        /\ ~last.ok
        /\ last.result = Missing
        /\ last.encode_calls = <<>>
        /\ ~last.cache_written
        /\ cache_files[get_cache_path(last.path)] = Missing

\* C24: without embedding model every call returns a failure value: process_persona
\* on a cache miss returns nothing and writes no cache entry, and a query on a loaded
\* session returns the outcome 'Error: Failed to create query embedding' without
\* calling the retrieval module or the generator.
C24_ModelMissing ==
    /\ MissWithoutModelFails
    /\ GenerateWithoutModel =>
           /\ last.outcome = QueryEmbeddingError
           /\ last.retrieval_calls = <<>>
           /\ last.llm_calls = <<>>

\* what does hold: the same with some error outcome for the query, which is the
\* message of the handler of line 152 and never the one of line 126
C24_ModelMissingSomeError ==
    /\ MissWithoutModelFails
    /\ GenerateWithoutModel =>
           /\ last.outcome.model_name = "unknown"
           /\ last.outcome.story = last.outcome.image_prompt
           /\ last.outcome # QueryEmbeddingError
           /\ last.outcome # NoCharacterError
           /\ last.retrieval_calls = <<>>
           /\ last.llm_calls = <<>>

\* a query on a session loaded from the cache by an agent without embedding model
C24_QueryWithoutModel == GenerateWithoutModel

\* a load that missed the cache on an agent without embedding model
C24_MissWithoutModel == LoadMissWithoutModel /\ last.doc_read

(***************************************************************************)
(* Properties of the character configuration.                              *)
(***************************************************************************)
\* the configuration file of the character
ConfigOf(character_name) == Value(load_character_config(character_name))

\* the generator was called for the loaded persona
QueryAnswered == GenerateReturned /\ last.llm_calls # <<>>

\* C25: a failed load_character leaves the character configuration as it was, so a
\* query against the persona that is still loaded runs under that persona's own
\* configuration and per-facet retrieval parameters.
C25_FailedLoadKeepsConfig ==
    /\ (LoadReturned /\ ~last.ok) => character_config = last.config_before
    /\ QueryAnswered =>
           /\ character_config = ConfigOf(Value(current_character))
           /\ \A f \in Facets :
                  get_config_retrieval_params(character_config, f)
                      = get_config_retrieval_params(ConfigOf(Value(current_character)), f)

\* what does hold: a failed load leaves the configuration as it was only when no
\* configuration file was found; when one was found it is the active configuration
\* from then on, whatever happened to the persona document
C25_FailedLoadConfig ==
    (LoadReturned /\ ~last.ok) =>
        character_config = IF last.config_found THEN ConfigOf(last.character)
                           ELSE last.config_before

\* a query against a loaded persona answered under the retrieval parameters of a
\* character whose load failed
C25_QueryUnderOtherParams ==
    /\ QueryAnswered
    /\ \E f \in Facets :
           get_config_retrieval_params(character_config, f)
               # get_config_retrieval_params(ConfigOf(Value(current_character)), f)

(***************************************************************************)
(* Properties of the cache key.                                            *)
(***************************************************************************)
ProcessReturned == last.op = "process_persona"

\* the chunks and embeddings of the text the document at `path` holds in SpecStems
DerivedFrom(path) ==
    LET chunks == chunk_text(StemTexts[path], DefaultChunkSize, DefaultOverlap)
    IN  Some(<<chunks, encode(chunks)>>)

\* C26: process_persona(F) returns only chunks and embeddings derived from F's own
\* document; two persona files never share a cache entry, whether their names differ
\* in the directory, in the extension or in the base name.
C26_OwnDocument ==
    /\ (ProcessReturned /\ last.result # Missing) => last.result = DerivedFrom(last.path)
    /\ \A p, q \in StemPaths : p # q => get_cache_path(p) # get_cache_path(q)

\* what does hold: the result is derived from a document with the same base name
\* without extension, and files that differ in that name have cache entries apart
C26_SameStemDocument ==
    /\ (ProcessReturned /\ last.result # Missing) =>
           \E path \in StemPaths :
               /\ PathStem(path) = PathStem(last.path)
               /\ last.result = DerivedFrom(path)
    /\ \A p, q \in StemPaths :
           PathStem(p) # PathStem(q) => get_cache_path(p) # get_cache_path(q)

\* process_persona for one file returned what was computed from another file
C26_OtherDocument ==
    /\ ProcessReturned
    /\ last.result # Missing
    /\ last.cache_hit
    /\ \E path \in StemPaths : path # last.path /\ last.result = DerivedFrom(path)

(***************************************************************************)
(* Properties of the session as a whole.                                   *)
(***************************************************************************)
\* the persona document the configuration of the character names
PersonaPathOf(character_name) ==
    ResolvePersonaFile(Value(get_config_persona_file(ConfigOf(character_name))))

\* a character name, a non-empty list of chunks, as many embeddings
FullyLoaded ==
    /\ current_character # Missing
    /\ Value(current_character) # ""
    /\ Len(current_persona_chunks) > 0
    /\ Len(current_persona_embeddings) = Len(current_persona_chunks)

\* the chunks are those of the loaded character's persona document, the embeddings
\* are theirs
OwnPersona ==
    LET text == Value(persona_files[PersonaPathOf(Value(current_character))])
    IN  /\ current_persona_chunks = chunk_text(text, DefaultChunkSize, DefaultOverlap)
        /\ current_persona_embeddings = encode(current_persona_chunks)

\* a query reports 'No character loaded' only on an unloaded agent, and a load that
\* returned True leaves an agent on which a query passes the guard
NoSpuriousNoCharacter ==
    /\ (GenerateReturned /\ last.outcome = NoCharacterError) => last.before = Unloaded
    /\ (LoadReturned /\ last.ok) => ~NoCharacterLoaded(CurrentSession)

\* C27: in every state reachable by load_character, generate_story_and_image and
\* cleanup calls the session is fully unloaded, or fully loaded with the chunks and
\* embeddings of the loaded character's persona; a query right after a successful
\* load never reports 'No character loaded'.
C27_SessionAllOrNothing ==
    /\ CurrentSession = Unloaded \/ (FullyLoaded /\ OwnPersona)
    /\ NoSpuriousNoCharacter

\* what does hold: the session is unloaded or has a name, chunks and as many
\* embeddings, computed from a document with the same base name as the character's
C27_SessionShape ==
    /\ CurrentSession = Unloaded \/ FullyLoaded
    /\ NoSpuriousNoCharacter
    /\ CurrentSession # Unloaded =>
           \E path \in DOMAIN persona_files :
               /\ PathStem(path) = PathStem(PersonaPathOf(Value(current_character)))
               /\ current_persona_chunks
                      = chunk_text(Value(persona_files[path]), DefaultChunkSize,
                                   DefaultOverlap)
               /\ current_persona_embeddings = encode(current_persona_chunks)

\* a session that has the name of one character and the chunks of another
C27_ForeignChunks == FullyLoaded /\ ~OwnPersona

\* a query on a session that a successful load left and a cleanup with a failing
\* component did not clear
C27_QueryAfterLoad ==
    /\ GenerateReturned
    /\ last.before # Unloaded
    /\ ~embedding_model

(***************************************************************************)
(* Properties of the cache flag.                                           *)
(***************************************************************************)
\* a load found a cache entry for its persona file
CacheHit == LoadReturned /\ last.processed /\ last.cached # Missing

\* C28: app.cache_embeddings governs the writing of the cache only: with the flag off
\* no step creates or changes a cache entry, and a load that finds an entry for its
\* persona file still returns that entry, without reading the document or running
\* the embedding model.
C28_FlagGovernsWritesOnly ==
    /\ [][~cache_embeddings => cache_files' = cache_files]_vars
    /\ []((~cache_embeddings /\ CacheHit) =>
             /\ last.ok
             /\ last.result = last.cached
             /\ ~last.doc_read
             /\ last.encode_calls = <<>>
             /\ ~last.cache_written)
    /\ []((~cache_embeddings /\ LoadReturned) => ~last.cache_written)

\* with the flag off, a load answered from an entry of an earlier run although the
\* document holds another text by now
C28_Witness ==
    /\ ~cache_embeddings
    /\ CacheHit
    /\ last.ok
    /\ persona_files[last.path] # Missing
    /\ Value(last.result)[1]
           # chunk_text(Value(persona_files[last.path]), DefaultChunkSize, DefaultOverlap)

\* the last request was a /generate that names a character
GenerateNamed ==
    /\ api_last.endpoint = "/generate"
    /\ api_last.character # Missing
    /\ Value(api_last.character) # ""

\* the response carries one of the error outcomes of generate_story_and_image
ReportsError == api_last.outcome.model_name = "unknown"

\* C29: a /generate request that names character C generates from C's persona or
\* reports an error; when loading C fails it neither returns nor records in the
\* history under C a story built from a persona loaded earlier.
C29_NamedCharacterOrError ==
    GenerateNamed =>
        \/ api_last.answered_from = api_last.character
        \/ /\ ReportsError
           /\ api_last.answered_from = Missing
           /\ Value(api_last.history).story = api_last.outcome.story

\* what does hold: when the load of C succeeds the story is built from C; when it
\* fails the request goes on with whatever session the agent has
C29_NamedCharacterIfLoaded ==
    GenerateNamed =>
        IF api_last.success THEN api_last.answered_from = api_last.character
        ELSE \/ api_last.answered_from = Missing /\ ReportsError
             \/ api_last.answered_from \notin {Missing, api_last.character}

\* a request naming a character that cannot be loaded, answered with a story from
\* another persona and recorded in the history under the named character
C29_StoryFromOtherPersona ==
    /\ GenerateNamed
    /\ ~api_last.success
    /\ api_last.outcome = Generated
    /\ api_last.answered_from \notin {Missing, api_last.character}
    /\ Value(api_last.history) = [character |-> api_last.character,
                                  story |-> api_last.outcome.story]

(***************************************************************************)
(* ConfigLoader properties (SpecListing).                                  *)
(***************************************************************************)
YamlFiles == {file \in config_dir : EndsWith(file, ".yaml")}

NoDuplicateNames ==
    \A i, j \in 1..Len(listed.characters) :
        listed.characters[i] = listed.characters[j] => i = j

\* load_character_config answered with the first of the three files that exists,
\* and failed when none of them exists
ResolvedInOrder ==
    LET character_name == Value(listed.character_name)
        plain == character_name \o ".yaml"
        single == character_name \o "_config.yaml"
        double == character_name \o "__config.yaml"
    IN  listed.config_file =
            IF plain \in config_dir THEN Some(plain)
            ELSE IF single \in config_dir THEN Some(single)
            ELSE IF double \in config_dir THEN Some(double)
            ELSE Missing

\* C30: every name get_available_characters returns can be loaded: the name listed
\* for each .yaml file of the directory is resolved by load_character_config to an
\* existing file, the first of <name>.yaml, <name>_config.yaml, <name>__config.yaml;
\* the list has no duplicates; a name with none of the three files fails to load.
C30_ListedNamesLoad ==
    /\ listed.op = "get_available_characters" =>
          /\ \A file \in YamlFiles :
                 /\ CharacterNameOf(file) \in Range(listed.characters)
                 /\ ConfigFileFound(config_dir, CharacterNameOf(file)) # Missing
          /\ NoDuplicateNames
    /\ listed.op = "load_character_config" =>
          /\ ResolvedInOrder
          /\ Value(listed.character_name) \in Range(listed.characters) =>
                 /\ listed.config_file # Missing
                 /\ Value(listed.config_file) \in config_dir

\* the file name holds ".yaml" once, at its end
PlainYaml(file) ==
    /\ EndsWith(file, ".yaml")
    /\ PyReplace(SubSeq(file, 1, Len(file) - 5), ".yaml") = SubSeq(file, 1, Len(file) - 5)

\* what does hold: the names listed for the files that hold ".yaml" only as their
\* suffix can be loaded, every .yaml file has its name listed once, and the
\* look-up follows the order of the three file names
C30_SuffixNamesLoad ==
    /\ listed.op = "get_available_characters" =>
          /\ \A file \in YamlFiles :
                 /\ CharacterNameOf(file) \in Range(listed.characters)
                 /\ PlainYaml(file) =>
                        ConfigFileFound(config_dir, CharacterNameOf(file)) # Missing
          /\ NoDuplicateNames
    /\ listed.op = "load_character_config" =>
          /\ ResolvedInOrder
          /\ listed.config_file # Missing => Value(listed.config_file) \in config_dir

\* a name of the list was asked for and no configuration file was found for it
C30_ListedNameNotFound ==
    /\ listed.op = "load_character_config"
    /\ Value(listed.character_name) \in Range(listed.characters)
    /\ listed.config_file = Missing

\* three files of one character give one name, loaded from the first of them
C30_OneNameForThreeFiles ==
    /\ listed.op = "load_character_config"
    /\ {"himu.yaml", "himu_config.yaml"} \subseteq config_dir
    /\ listed.characters = <<"himu">>
    /\ listed.config_file = Some("himu.yaml")

(***************************************************************************)
(* Formatter properties.                                                   *)
(***************************************************************************)
FormatReturned == fc_pc = "returned"

FacetOrder == <<"topic", "style", "timeline">>

FacetLabel(key) ==
    IF key = "topic" THEN "Topic-Relevant Information:"
    ELSE IF key = "style" THEN "Style Guidelines:"
    ELSE "Timeline Information:"

\* a line without the line breaks in front of it
RECURSIVE StripNewlines(_)
StripNewlines(str) ==
    IF Len(str) > 0 /\ SubSeq(str, 1, 1) = "\n"
       THEN StripNewlines(SubSeq(str, 2, Len(str)))
       ELSE str

\* the orders the pairs of a dict may come in
KeyReorderings(pairs) ==
    {other \in SeqsOfLen({pairs[i] : i \in 1..Len(pairs)}, Len(pairs)) : Distinct(other)}

\* C11: the facets come out in the order topic, style, timeline whatever the key
\* order of the mapping; every facet with a non-empty list contributes its fixed
\* label followed by its chunks in the given order; a facet that is absent or empty
\* contributes nothing, and when no facet is non-empty the result is the empty string.
C11_FixedFacetOrder ==
    FormatReturned =>
        LET context == DictOf(fc_context)
            NonEmpty(key) == key \in DOMAIN context /\ Len(context[key]) > 0
            present == SelectSeq(FacetOrder, NonEmpty)
            size(j) == 1 + Len(context[present[j]])
            before[j \in 0..Len(present)] == IF j = 0 THEN 0 ELSE before[j - 1] + size(j)
        IN  /\ Len(fc_sections) = before[Len(present)]
            /\ \A j \in 1..Len(present) :
                   /\ StripNewlines(fc_sections[before[j - 1] + 1]) = FacetLabel(present[j])
                   /\ SubSeq(fc_sections, before[j - 1] + 2, before[j]) = context[present[j]]
            /\ fc_output = JoinStrings(fc_sections, "\n\n")
            /\ present = <<>> => fc_output = ""
            /\ \A other \in KeyReorderings(fc_context) :
                   format_context_for_llm(DictOf(other)) = fc_output

\* a mapping whose keys come in the order timeline, style, topic, all three non-empty
C11_Witness ==
    /\ FormatReturned
    /\ Len(fc_context) = 3
    /\ [i \in 1..3 |-> fc_context[i][1]] = <<"timeline", "style", "topic">>
    /\ \A i \in 1..3 : Len(fc_context[i][2]) > 0
    /\ Len(fc_context[3][2]) = 2
    /\ fc_context[1][2] # fc_context[2][2]

====
